---- MODULE Spec2Model ----
(***************************************************************************)
(* State-machine model of the VOC case-management platform: the relational *)
(* store (users, files, status_history, notifications, coc_details,        *)
(* file_attachments), the request handlers of routes/auth.py,              *)
(* routes/user.py, routes/admin.py, routes/evaluator.py, routes/invoice.py *)
(* and routes/affecteur.py, the account scripts create_admin.py and        *)
(* init_db.py, and the recall scan of utils/scheduler.py.                  *)
(*                                                                         *)
(* Text values are sequences of symbols.  A symbol is a one-character      *)
(* string, except that a literal the code only ever compares as a whole    *)
(* (a status, a decision, a role, a date or a number in its textual form)  *)
(* is one symbol.  The symbol " " is whitespace.  A nullable column holds  *)
(* None (<<>>) or Some(v) (<<v>>), so that None differs from empty text.   *)
(***************************************************************************)
EXTENDS Integers, Sequences, FiniteSets, TLC

VARIABLES users, files, history, notifications, cocs, attachments, session,
          today, utcSkew, tzSign, last,
          inflight,   \* the requests and recall runs that have started and not ended
          disk        \* the paths of the files in the upload folder

vars == <<users, files, history, notifications, cocs, attachments, session,
          today, utcSkew, tzSign, last, inflight, disk>>

store == <<users, files, history, notifications, cocs, attachments>>

-----------------------------------------------------------------------------
(* Bounds of the model *)

MaxFiles == 2
MaxCases == 1
MaxRows == 2
MaxDay == 2
MaxHistory == 2
MaxNotifications == 3
MaxAttachments == 1
MaxAccounts == 6
MaxInflight == 2
MaxTransitions == 4
MaxUploads == 2
MaxSecond == 2

-----------------------------------------------------------------------------
(* Nullable values and text *)

None == <<>>

Some(v) == <<v>>

T(word) == <<word>>

IsSpace(c) == c = " "

RECURSIVE LStrip(_)
LStrip(t) == IF t # <<>> /\ IsSpace(Head(t)) THEN LStrip(Tail(t)) ELSE t

RECURSIVE RStrip(_)
RStrip(t) ==
    IF t # <<>> /\ IsSpace(t[Len(t)]) THEN RStrip(SubSeq(t, 1, Len(t) - 1)) ELSE t

Strip(t) == RStrip(LStrip(t))

LowerLetters ==
    <<"a", "b", "c", "d", "e", "f", "g", "h", "i", "j", "k", "l", "m", "n", "o", "p", "q",
      "r", "s", "t", "u", "v", "w", "x", "y", "z">>

UpperLetters ==
    <<"A", "B", "C", "D", "E", "F", "G", "H", "I", "J", "K", "L", "M", "N", "O", "P", "Q",
      "R", "S", "T", "U", "V", "W", "X", "Y", "Z">>

Letters == 1..Len(LowerLetters)

UpperOf == [c \in {LowerLetters[i] : i \in Letters} |->
               UpperLetters[CHOOSE i \in Letters : LowerLetters[i] = c]]

LowerOf == [c \in {UpperLetters[i] : i \in Letters} |->
               LowerLetters[CHOOSE i \in Letters : UpperLetters[i] = c]]

UpperChar(c) == IF c \in DOMAIN UpperOf THEN UpperOf[c] ELSE c

LowerChar(c) == IF c \in DOMAIN LowerOf THEN LowerOf[c] ELSE c

Upper(t) == [i \in 1..Len(t) |-> UpperChar(t[i])]

Lower(t) == [i \in 1..Len(t) |-> LowerChar(t[i])]

HasDot(t) == \E i \in 1..Len(t) : t[i] = "."

(* t.rsplit('.', 1)[1] for a t that holds a dot *)
AfterLastDot(t) ==
    LET i == CHOOSE m \in 1..Len(t) : t[m] = "." /\ \A k \in (m + 1)..Len(t) : t[k] # "."
    IN  SubSeq(t, i + 1, Len(t))

(* Python truthiness of an optional text: None and '' are false *)
Truthy(opt) == opt # None /\ opt[1] # <<>>

-----------------------------------------------------------------------------
(* Workflow statuses, roles, decisions *)

Pending == T("en attente d'évaluation")
UnderEvaluation == T("en cours d'évaluation")
ReadyToInvoice == T("ready to invoice")
Payed == T("payed")
InProcessing == T("en cours de traitement")
ToComplete == T("à compléter")
Inspection == T("transfert à l'inspection")
Finalized == T("Finalized")

valid_statuses ==
    {Pending, UnderEvaluation, ReadyToInvoice, Payed, InProcessing, ToComplete,
     Inspection, Finalized}

RouteA == T("A")
RouteB == T("B")
RouteC == T("C")

Soumis == T("soumis")
NonSoumis == T("non_soumis")
Dispense == T("dispense")

Admin == T("admin")
Evaluateur == T("évaluateur")
Invoicing == T("invoicing")
Affecteur == T("affecteur")
PlainUser == T("user")

YearDays == 365
MinNumberLen == 3
MaxNumberLen == 100

-----------------------------------------------------------------------------
(* Clock: date.today() is the server-local date, datetime.utcnow() the UTC   *)
(* one.  tzSign is the sign of (UTC date - local date) during the part of    *)
(* the day in which the two differ (utcSkew), fixed by the server's zone.    *)

Days == 0..(MaxDay + 1)

StaleDay == 0 - (YearDays + MaxDay + 1)

DateDomain == Days \cup {StaleDay}

utcnow == today + (IF utcSkew THEN tzSign ELSE 0)

(* the textual form of a date (YYYY-MM-DD) is one symbol *)
DateText(d) == T(ToString(d))

(* datetime.strptime(s, '%Y-%m-%d').date(): None stands for ValueError *)
ParseDate(t) ==
    IF Len(t) = 1 /\ \E d \in DateDomain : ToString(d) = t[1]
    THEN Some(CHOOSE d \in DateDomain : ToString(d) = t[1])
    ELSE None

-----------------------------------------------------------------------------
(* utils/validation.py: TRUE when the validator returns, FALSE when it raises *)

validate_non_empty(value) == value # <<>> /\ Strip(value) # <<>>

validate_file_number(file_number) ==
    /\ file_number # <<>> /\ Strip(file_number) # <<>>
    /\ ~(Len(Strip(file_number)) < MinNumberLen \/ Len(Strip(file_number)) > MaxNumberLen)

validate_date_string(date_str) ==
    /\ date_str # <<>> /\ Strip(date_str) # <<>>
    /\ ParseDate(date_str) # None

(* variant: the route letter is checked, the SOR and SOL numbers are not *)
validate_route_letter_only(route, sor_number, sol_number) ==
    route \in {RouteA, RouteB, RouteC}

validate_route(route, sor_number, sol_number) ==
    /\ route \in {RouteA, RouteB, RouteC}
    /\ (route = RouteB => (sor_number # <<>> /\ Strip(sor_number) # <<>>))
    /\ (route = RouteC => (sol_number # <<>> /\ Strip(sol_number) # <<>>))

(* variant: any submitted status is accepted *)
validate_status_unchecked(status) == TRUE

validate_status(status) == status \in valid_statuses

validate_recall_date(recall_date) == ~(recall_date < today - YearDays)

MinEmailLen == 5
MaxEmailLen == 120
MinUsernameLen == 3
MaxUsernameLen == 80
MinPasswordLen == 6
MaxPasswordLen == 100

Contains(t, c) == \E i \in 1..Len(t) : t[i] = c

validate_email(email) ==
    /\ email # <<>> /\ Strip(email) # <<>>
    /\ ~(~Contains(Lower(Strip(email)), "@") \/ ~Contains(Lower(Strip(email)), "."))
    /\ ~(Len(Lower(Strip(email))) < MinEmailLen \/ Len(Lower(Strip(email))) > MaxEmailLen)

Digits == {"0", "1", "2", "3", "4", "5", "6", "7", "8", "9"}

(* c.isalnum() for the characters of the model *)
IsAlnum(c) == c \in DOMAIN UpperOf \/ c \in DOMAIN LowerOf \/ c \in Digits

validate_username(username) ==
    /\ username # <<>> /\ Strip(username) # <<>>
    /\ ~(Len(Strip(username)) < MinUsernameLen \/ Len(Strip(username)) > MaxUsernameLen)
    /\ \A i \in 1..Len(Strip(username)) :
          IsAlnum(Strip(username)[i]) \/ Strip(username)[i] \in {"_", "-"}

validate_password(password) ==
    /\ password # <<>>
    /\ ~(Len(password) < MinPasswordLen)
    /\ ~(Len(password) > MaxPasswordLen)

-----------------------------------------------------------------------------
(* Store helpers *)

FileIds == DOMAIN files

NextFileId(fs) == IF DOMAIN fs = {} THEN 1
                  ELSE (CHOOSE m \in DOMAIN fs : \A k \in DOMAIN fs : k <= m) + 1

(* variant: the look-up never finds a case *)
FileNumberNeverFound(fs, file_number) == FALSE

(* File.query.filter_by(file_number=...).first() is not None *)
FileNumberExists(fs, file_number) ==
    \E k \in DOMAIN fs : fs[k].file_number = file_number

(* db.session.add(file) followed by a flush: the row gets the next id *)
AddFile(fs, f) ==
    LET k == NextFileId(fs)
    IN  [j \in DOMAIN fs \cup {k} |-> IF j = k THEN [f EXCEPT !.id = k] ELSE fs[j]]

UsersWithRole(role) == {u \in DOMAIN users : users[u].role = role}

(* models.py File(...): the columns a constructor call leaves out are NULL *)
BlankFile ==
    [id |-> 0, file_number |-> <<>>, receipt_date |-> None, importer |-> <<>>,
     exporter |-> <<>>, country |-> <<>>, route |-> <<>>, sor_number |-> None,
     sol_number |-> None, status |-> Pending, montant_facture |-> None,
     evaluation_reason |-> None, completion_description |-> None,
     completion_date |-> None, recall_date |-> None, mar_number |-> None,
     proforma_number |-> None, payment_justification_path |-> None,
     invoiced_at |-> None, invoiced_by |-> None, user_id |-> None]

(* variant: a case may receive a CoC record whatever its status *)
can_add_coc_any_status(f) == TRUE

can_add_coc(f) == f.status = Finalized

(* variant: a closed case can be invoiced as well *)
can_be_invoiced_or_closed(f) == f.status \in {ReadyToInvoice, Finalized}

can_be_invoiced(f) == f.status = ReadyToInvoice

is_invoiced(f) ==
    f.status = Payed /\ Truthy(f.mar_number) /\ Truthy(f.proforma_number)

(* models.py User.set_password / check_password: werkzeug's hash matches the  *)
(* password it was made from and no other                                     *)
generate_password_hash(password) == <<"pbkdf2">> \o password

check_password(user, password) == user.password_hash = generate_password_hash(password)

(* what the last request did: the handler, the case it named (0 for none),  *)
(* how it ended, and what it reported                                       *)
Outcome(op, file, outcome, info) ==
    [op |-> op, file |-> file, outcome |-> outcome, info |-> info]

-----------------------------------------------------------------------------
(* Route-group guards (before_request) *)

(* the caller of a request: an account's id, or Anonymous for a request that *)
(* carries no session                                                        *)
Anonymous == 0

Callers == DOMAIN users \cup {Anonymous}

(* current_user.is_authenticated *)
is_authenticated(u) == u \in DOMAIN users

is_admin(u) == users[u].role = Admin

(* variant: the /user group admits every authenticated caller *)
user_required_any_role(u) == is_authenticated(u)

user_required(u) == is_authenticated(u) /\ users[u].role # Invoicing

evaluator_required(u) == is_authenticated(u) /\ users[u].role \in {Evaluateur, Admin}

invoicing_required(u) == is_authenticated(u) /\ users[u].role \in {Invoicing, Admin}

affecteur_required(u) == is_authenticated(u) /\ users[u].role \in {Affecteur, Admin}

admin_required(u) == ~(~is_authenticated(u) \/ ~is_admin(u))

-----------------------------------------------------------------------------
(* routes/user.py new_file (POST) *)

NewFileValid(form) ==
    LET recall_date_str == Strip(form.recall_date)
    IN  /\ validate_file_number(Strip(form.file_number))
        /\ validate_date_string(Strip(form.receipt_date))
        /\ validate_non_empty(Strip(form.importer))
        /\ validate_non_empty(Strip(form.exporter))
        /\ validate_non_empty(Strip(form.country))
        /\ validate_route(Strip(form.route), Strip(form.sor_number), Strip(form.sol_number))
        /\ validate_status(Strip(form.status))
        /\ (recall_date_str # <<>> =>
               /\ ParseDate(recall_date_str) # None
               /\ validate_recall_date(ParseDate(recall_date_str)[1]))

NewFileRecord(u, form) ==
    LET route == Strip(form.route)
        recall_date_str == Strip(form.recall_date)
    IN  [BlankFile EXCEPT
            !.file_number = Strip(form.file_number),
            !.receipt_date = ParseDate(Strip(form.receipt_date)),
            !.importer = Strip(form.importer),
            !.exporter = Strip(form.exporter),
            !.country = Strip(form.country),
            !.route = route,
            !.sor_number = IF route = RouteB THEN Some(Strip(form.sor_number)) ELSE None,
            !.sol_number = IF route = RouteC THEN Some(Strip(form.sol_number)) ELSE None,
            !.status = Strip(form.status),
            !.recall_date = IF recall_date_str # <<>> THEN ParseDate(recall_date_str) ELSE None,
            !.user_id = Some(u)]

NewFile(u, form) ==
    /\ u \in Callers
    /\ UNCHANGED <<users, history, notifications, today, utcSkew, tzSign, inflight, disk, cocs, attachments, session>>
    /\ IF ~user_required(u)
       THEN /\ last' = Outcome("new_file", 0, "forbidden", <<>>)
            /\ UNCHANGED files
       ELSE IF ~NewFileValid(form)
       THEN /\ last' = Outcome("new_file", 0, "invalid", <<>>)
            /\ UNCHANGED files
       ELSE IF FileNumberExists(files, Strip(form.file_number))
       THEN /\ last' = Outcome("new_file", 0, "rejected", <<>>)
            /\ UNCHANGED files
       ELSE /\ files' = AddFile(files, NewFileRecord(u, form))
            /\ last' = Outcome("new_file", NextFileId(files), "ok", <<>>)

-----------------------------------------------------------------------------
(* routes/user.py edit_file (POST) *)

(* variant: the old status is read after the status was assigned *)
HistoryEntryReadLate(file_id, old_status, new_status, by) ==
    [file_id |-> file_id, old_status |-> Some(new_status), new_status |-> new_status,
     changed_at |-> utcnow, changed_by |-> by]

HistoryEntry(file_id, old_status, new_status, by) ==
    [file_id |-> file_id, old_status |-> old_status, new_status |-> new_status,
     changed_at |-> utcnow, changed_by |-> by]

NotificationRow(user_id, file_id, type) ==
    [user_id |-> user_id, file_id |-> file_id, notification_type |-> type,
     created_at |-> utcnow, read_status |-> FALSE]

(* one notification per user of the set, in id order *)
RECURSIVE NotifyAll(_, _, _)
NotifyAll(us, file_id, type) ==
    IF us = {} THEN <<>>
    ELSE LET u == CHOOSE m \in us : \A k \in us : m <= k
         IN  <<NotificationRow(Some(u), file_id, type)>> \o NotifyAll(us \ {u}, file_id, type)

(* variant: a case without owner is open to every caller *)
OwnerOrAdminOrUnowned(u, f) == f.user_id = None \/ f.user_id = Some(u) \/ is_admin(u)

OwnerOrAdmin(u, f) == ~(f.user_id # Some(u) /\ ~is_admin(u))

EditFileValid(form) ==
    /\ validate_date_string(Strip(form.receipt_date))
    /\ validate_non_empty(Strip(form.importer))
    /\ validate_non_empty(Strip(form.exporter))
    /\ validate_non_empty(Strip(form.country))
    /\ validate_route(Strip(form.route), Strip(form.sor_number), Strip(form.sol_number))
    /\ validate_status(Strip(form.status))

EditFileDatesValid(form) ==
    LET recall_date_str == Strip(form.recall_date)
    IN  recall_date_str # <<>> =>
           /\ ParseDate(recall_date_str) # None
           /\ validate_recall_date(ParseDate(recall_date_str)[1])

(* variant: the completion timestamp is not set *)
EditedFileUnstamped(f, form) ==
    LET route == Strip(form.route)
        status == Strip(form.status)
        recall_date_str == Strip(form.recall_date)
        g == [f EXCEPT
                !.receipt_date = ParseDate(Strip(form.receipt_date)),
                !.importer = Strip(form.importer),
                !.exporter = Strip(form.exporter),
                !.country = Strip(form.country),
                !.route = route,
                !.sor_number = IF route = RouteB THEN Some(Strip(form.sor_number)) ELSE None,
                !.sol_number = IF route = RouteC THEN Some(Strip(form.sol_number)) ELSE None,
                !.status = status,
                !.recall_date = IF recall_date_str # <<>> THEN ParseDate(recall_date_str) ELSE None]
    IN  IF status = ToComplete
        THEN [g EXCEPT !.completion_description = Some(Strip(form.completion_description))]
        ELSE g

EditedFile(f, form) ==
    LET route == Strip(form.route)
        status == Strip(form.status)
        recall_date_str == Strip(form.recall_date)
        g == [f EXCEPT
                !.receipt_date = ParseDate(Strip(form.receipt_date)),
                !.importer = Strip(form.importer),
                !.exporter = Strip(form.exporter),
                !.country = Strip(form.country),
                !.route = route,
                !.sor_number = IF route = RouteB THEN Some(Strip(form.sor_number)) ELSE None,
                !.sol_number = IF route = RouteC THEN Some(Strip(form.sol_number)) ELSE None,
                !.status = status,
                !.recall_date = IF recall_date_str # <<>> THEN ParseDate(recall_date_str) ELSE None]
    IN  IF status = ToComplete
        THEN [g EXCEPT !.completion_description = Some(Strip(form.completion_description)),
                       !.completion_date = Some(utcnow)]
        ELSE g

EditFile(u, id, form) ==
    /\ u \in Callers /\ id \in DOMAIN files
    /\ UNCHANGED <<users, today, utcSkew, tzSign, inflight, disk, cocs, attachments, session>>
    /\ LET file == files[id]
           status == Strip(form.status)
           old_status == file.status
       IN  IF ~user_required(u)
           THEN /\ last' = Outcome("edit_file", id, "forbidden", <<>>)
                /\ UNCHANGED <<files, history, notifications>>
           ELSE IF ~OwnerOrAdmin(u, file)
           THEN /\ last' = Outcome("edit_file", id, "rejected", "owner")
                /\ UNCHANGED <<files, history, notifications>>
           ELSE IF ~EditFileValid(form)
           THEN /\ last' = Outcome("edit_file", id, "invalid", <<>>)
                /\ UNCHANGED <<files, history, notifications>>
           ELSE IF status = ToComplete /\ Strip(form.completion_description) = <<>>
           THEN /\ last' = Outcome("edit_file", id, "rejected", "description")
                /\ UNCHANGED <<files, history, notifications>>
           ELSE IF ~EditFileDatesValid(form)
           THEN /\ last' = Outcome("edit_file", id, "invalid", <<>>)
                /\ UNCHANGED <<files, history, notifications>>
           ELSE /\ files' = [files EXCEPT ![id] = EditedFile(file, form)]
                /\ history' = IF old_status # status
                              THEN Append(history, HistoryEntry(id, Some(old_status), status, Some(u)))
                              ELSE history
                /\ notifications' =
                      IF status = ReadyToInvoice /\ old_status # ReadyToInvoice
                      THEN notifications \o NotifyAll(UsersWithRole(Invoicing), Some(id), "info")
                      ELSE notifications
                /\ last' = Outcome("edit_file", id, "ok", <<>>)

-----------------------------------------------------------------------------
(* routes/affecteur.py upload_excel (POST).  A cell is empty, a string or a  *)
(* date; a row gives the cell of each of the eight columns (an absent        *)
(* optional column reads as an empty cell).                                  *)

EmptyCell == [k |-> "empty", v |-> <<>>]

StrCell(t) == [k |-> "str", v |-> t]

DateCell(d) == [k |-> "date", v |-> T(ToString(d))]

(* str(cell) *)
Str(cell) == IF cell.k = "empty" THEN <<"N", "o", "n", "e">> ELSE cell.v

CellTruthy(cell) == cell.k # "empty" /\ cell.v # <<>>

EndsWith(t, suffix) ==
    Len(t) >= Len(suffix) /\ SubSeq(t, Len(t) - Len(suffix) + 1, Len(t)) = suffix

required_columns ==
    {T("file_number"), T("receipt_date"), T("importer"), T("exporter"), T("country"),
     T("route")}

SheetHeaders(sheet) ==
    {Strip(Lower(sheet.headers[i])) : i \in 1..Len(sheet.headers)}

(* the session of one upload: the rows added and not yet committed, whether  *)
(* a failed flush has left the session needing a rollback, the counters and  *)
(* the reasons of the errors list                                            *)
NewUpload ==
    [pending |-> <<>>, broken |-> FALSE, success_count |-> 0, error_count |-> 0,
     errors |-> <<>>]

(* a pending row the database refuses (receipt_date is NOT NULL) *)
Unflushable(f) == f.receipt_date = None

(* the rows visible to a query: autoflush has written the pending ones *)
RECURSIVE Flushed(_, _)
Flushed(fs, pending) ==
    IF pending = <<>> THEN fs ELSE Flushed(AddFile(fs, Head(pending)), Tail(pending))

UploadRowFile(row) ==
    LET receipt_date == IF row.receipt_date.k = "empty" THEN None
                        ELSE ParseDate(row.receipt_date.v)
    IN  [BlankFile EXCEPT
            !.file_number = Strip(Str(row.file_number)),
            !.receipt_date = receipt_date,
            !.importer = Strip(Str(row.importer)),
            !.exporter = Strip(Str(row.exporter)),
            !.country = Strip(Str(row.country)),
            !.route = Upper(Strip(Str(row.route))),
            !.sor_number = IF CellTruthy(row.sor_number)
                           THEN Some(Strip(Str(row.sor_number))) ELSE None,
            !.sol_number = IF CellTruthy(row.sol_number)
                           THEN Some(Strip(Str(row.sol_number))) ELSE None,
            !.status = Pending,
            !.user_id = None]

Failed(acc, reason) ==
    [acc EXCEPT !.error_count = @ + 1, !.errors = Append(@, reason)]

ImportRow(fs, acc, row) ==
    LET f == UploadRowFile(row)
    IN  IF f.file_number = <<>> \/ f.file_number = <<"N", "o", "n", "e">>
        THEN acc
        ELSE IF acc.broken
        THEN Failed(acc, "Erreur")
        ELSE IF \E i \in 1..Len(acc.pending) : Unflushable(acc.pending[i])
        THEN [Failed(acc, "Erreur") EXCEPT !.broken = TRUE]
        ELSE IF FileNumberExists(Flushed(fs, acc.pending), f.file_number)
        THEN Failed(acc, "existe déjà")
        ELSE IF row.receipt_date.k = "str" /\ ParseDate(row.receipt_date.v) = None
        THEN Failed(acc, "Erreur")
        ELSE IF f.route = RouteB /\ ~Truthy(f.sor_number)
        THEN Failed(acc, "SOR requis")
        ELSE IF f.route = RouteC /\ ~Truthy(f.sol_number)
        THEN Failed(acc, "SOL requis")
        ELSE [acc EXCEPT !.pending = Append(@, f), !.success_count = @ + 1]

RECURSIVE ImportRows(_, _, _)
ImportRows(fs, acc, rows) ==
    IF rows = <<>> THEN acc
    ELSE ImportRows(fs, ImportRow(fs, acc, Head(rows)), Tail(rows))

UploadExcel(u, sheet) ==
    /\ u \in Callers
    /\ UNCHANGED <<users, history, notifications, today, utcSkew, tzSign, inflight, disk, cocs, attachments, session>>
    /\ LET acc == ImportRows(files, NewUpload, sheet.rows)
           report == [success_count |-> acc.success_count,
                      error_count |-> acc.error_count, errors |-> acc.errors]
       IN  IF ~affecteur_required(u)
           THEN /\ last' = Outcome("upload_excel", 0, "forbidden", <<>>)
                /\ UNCHANGED files
           ELSE IF sheet.filename = <<>>
                   \/ ~(EndsWith(Lower(sheet.filename), <<".", "x", "l", "s", "x">>)
                        \/ EndsWith(Lower(sheet.filename), <<".", "x", "l", "s">>))
           THEN /\ last' = Outcome("upload_excel", 0, "invalid", <<>>)
                /\ UNCHANGED files
           ELSE IF ~(required_columns \subseteq SheetHeaders(sheet))
           THEN /\ last' = Outcome("upload_excel", 0, "invalid", <<>>)
                /\ UNCHANGED files
           ELSE IF acc.broken \/ \E i \in 1..Len(acc.pending) : Unflushable(acc.pending[i])
           THEN /\ last' = Outcome("upload_excel", 0, "error", <<>>)
                /\ UNCHANGED files
           ELSE /\ files' = Flushed(files, acc.pending)
                /\ last' = Outcome("upload_excel", 0, "ok", report)

-----------------------------------------------------------------------------
(* routes/user.py set_completion and self_assign_file *)

SetCompletion(u, id, completion_description) ==
    /\ u \in Callers /\ id \in DOMAIN files
    /\ UNCHANGED <<users, notifications, today, utcSkew, tzSign, inflight, disk, cocs, attachments, session>>
    /\ LET file == files[id]
           description == Strip(completion_description)
       IN  IF ~user_required(u)
           THEN /\ last' = Outcome("set_completion", id, "forbidden", <<>>)
                /\ UNCHANGED <<files, history>>
           ELSE IF ~OwnerOrAdmin(u, file)
           THEN /\ last' = Outcome("set_completion", id, "rejected", "owner")
                /\ UNCHANGED <<files, history>>
           ELSE IF description = <<>>
           THEN /\ last' = Outcome("set_completion", id, "rejected", "description")
                /\ UNCHANGED <<files, history>>
           ELSE /\ files' = [files EXCEPT ![id] =
                                [file EXCEPT !.status = ToComplete,
                                             !.completion_description = Some(description),
                                             !.completion_date = Some(utcnow)]]
                /\ history' = Append(history, HistoryEntry(id, Some(file.status), ToComplete, Some(u)))
                /\ last' = Outcome("set_completion", id, "ok", <<>>)

(* variant: the status of the case is not looked at *)
SelfAssignableAnyStatus(f) == ~(f.user_id # None)

(* variant: the owner of the case is not looked at *)
SelfAssignableOwned(f) == ~(f.status # Payed)

SelfAssignable(f) == ~(f.status # Payed) /\ ~(f.user_id # None)

SelfAssignedFile(f, u) == [f EXCEPT !.user_id = Some(u), !.status = InProcessing]

SelfAssignFile(u, id) ==
    /\ u \in Callers /\ id \in DOMAIN files
    /\ UNCHANGED <<users, notifications, today, utcSkew, tzSign, inflight, disk, cocs, attachments, session>>
    /\ LET file == files[id]
       IN  IF ~user_required(u)
           THEN /\ last' = Outcome("self_assign_file", id, "forbidden", <<>>)
                /\ UNCHANGED <<files, history>>
           ELSE IF ~SelfAssignable(file)
           THEN /\ last' = Outcome("self_assign_file", id, "rejected", <<>>)
                /\ UNCHANGED <<files, history>>
           ELSE /\ files' = [files EXCEPT ![id] = SelfAssignedFile(file, u)]
                /\ history' = Append(history, HistoryEntry(id, Some(file.status), InProcessing, Some(u)))
                /\ last' = Outcome("self_assign_file", id, "ok", <<>>)

-----------------------------------------------------------------------------
(* routes/user.py view_file, add_coc and delete_file; routes/admin.py        *)
(* delete_file.  Deleting a case deletes, through the cascades of the         *)
(* relationships of File, its CoC record, its notifications, its status       *)
(* history and its attachments.                                               *)

ViewFile(u, id) ==
    /\ u \in Callers /\ id \in DOMAIN files
    /\ UNCHANGED <<store, session, today, utcSkew, tzSign, inflight, disk>>
    /\ IF ~user_required(u)
       THEN last' = Outcome("view_file", id, "forbidden", <<>>)
       ELSE IF ~OwnerOrAdmin(u, files[id])
       THEN last' = Outcome("view_file", id, "rejected", "owner")
       ELSE last' = Outcome("view_file", id, "ok", <<>>)

(* file.coc_details is not None *)
HasCoc(cs, id) == \E i \in 1..Len(cs) : cs[i].file_id = id

(* CoCDetails.query.filter_by(coc_number=...).first() is not None *)
CocNumberExists(cs, coc_number) == \E i \in 1..Len(cs) : cs[i].coc_number = coc_number

AddCocValid(form) ==
    /\ validate_date_string(Strip(form.coc_date))
    /\ validate_non_empty(Strip(form.coc_number))
    /\ validate_non_empty(Strip(form.invoice_number))

CoCDetails(id, form) ==
    [coc_date |-> ParseDate(Strip(form.coc_date))[1], coc_number |-> Strip(form.coc_number),
     invoice_number |-> Strip(form.invoice_number), created_at |-> utcnow, file_id |-> id]

AddCoc(u, id, form) ==
    /\ u \in Callers /\ id \in DOMAIN files
    /\ UNCHANGED <<users, files, history, notifications, attachments, session,
                   today, utcSkew, tzSign, inflight, disk>>
    /\ LET file == files[id]
       IN  IF ~user_required(u)
           THEN /\ last' = Outcome("add_coc", id, "forbidden", <<>>)
                /\ UNCHANGED cocs
           ELSE IF ~OwnerOrAdmin(u, file)
           THEN /\ last' = Outcome("add_coc", id, "rejected", "owner")
                /\ UNCHANGED cocs
           ELSE IF ~can_add_coc(file)
           THEN /\ last' = Outcome("add_coc", id, "rejected", "status")
                /\ UNCHANGED cocs
           ELSE IF HasCoc(cocs, id)
           THEN /\ last' = Outcome("add_coc", id, "rejected", "coc exists")
                /\ UNCHANGED cocs
           ELSE IF ~AddCocValid(form)
           THEN /\ last' = Outcome("add_coc", id, "invalid", <<>>)
                /\ UNCHANGED cocs
           ELSE IF CocNumberExists(cocs, Strip(form.coc_number))
           THEN /\ last' = Outcome("add_coc", id, "rejected", "coc_number exists")
                /\ UNCHANGED cocs
           ELSE /\ cocs' = Append(cocs, CoCDetails(id, form))
                /\ last' = Outcome("add_coc", id, "ok", <<>>)

(* variant: the rows that reference the deleted case are kept *)
KeptRows(rows, id) == rows

(* cascade='all, delete-orphan': the rows that reference the case go with it *)
CascadeRows(rows, id) == SelectSeq(rows, LAMBDA r : r.file_id # id)

(* the number of rows of each table that reference the case *)
RowsOf(id) ==
    [coc_details |-> Len(cocs) - Len(CascadeRows(cocs, id)),
     notifications |-> Len(notifications) - Len(CascadeRows(notifications, Some(id))),
     status_history |-> Len(history) - Len(CascadeRows(history, id)),
     attachments |-> Len(attachments) - Len(CascadeRows(attachments, id))]

(* db.session.delete(file); db.session.commit() *)
DeleteCase(id) ==
    /\ files' = [k \in DOMAIN files \ {id} |-> files[k]]
    /\ cocs' = CascadeRows(cocs, id)
    /\ notifications' = CascadeRows(notifications, Some(id))
    /\ history' = CascadeRows(history, id)
    /\ attachments' = CascadeRows(attachments, id)

DeleteFile(u, id) ==
    /\ u \in Callers /\ id \in DOMAIN files
    /\ UNCHANGED <<users, session, today, utcSkew, tzSign, inflight, disk>>
    /\ IF ~user_required(u)
       THEN /\ last' = Outcome("delete_file", id, "forbidden", <<>>)
            /\ UNCHANGED <<files, history, notifications, cocs, attachments>>
       ELSE IF ~OwnerOrAdmin(u, files[id])
       THEN /\ last' = Outcome("delete_file", id, "rejected", "owner")
            /\ UNCHANGED <<files, history, notifications, cocs, attachments>>
       ELSE /\ DeleteCase(id)
            /\ last' = Outcome("delete_file", id, "ok", RowsOf(id))

AdminDeleteFile(u, id) ==
    /\ u \in Callers /\ id \in DOMAIN files
    /\ UNCHANGED <<users, session, today, utcSkew, tzSign, inflight, disk>>
    /\ IF ~admin_required(u)
       THEN /\ last' = Outcome("admin_delete_file", id, "forbidden", <<>>)
            /\ UNCHANGED <<files, history, notifications, cocs, attachments>>
       ELSE /\ DeleteCase(id)
            /\ last' = Outcome("admin_delete_file", id, "ok", RowsOf(id))

-----------------------------------------------------------------------------
(* utils/upload.py save_file: the attachment of a case *)

ALLOWED_EXTENSIONS ==
    { <<"p", "d", "f">>, <<"d", "o", "c">>, <<"d", "o", "c", "x">>, <<"x", "l", "s">>,
      <<"x", "l", "s", "x">>, <<"p", "n", "g">>, <<"j", "p", "g">>, <<"j", "p", "e", "g">> }

MAX_FILE_SIZE == 10 * 1024 * 1024

allowed_file(filename) ==
    HasDot(filename) /\ Lower(AfterLastDot(filename)) \in ALLOWED_EXTENSIONS

(* werkzeug secure_filename, for names of letters, digits, dots, spaces and   *)
(* slashes: a space becomes an underscore and a slash is dropped             *)
RECURSIVE secure_filename(_)
secure_filename(t) ==
    IF t = <<>> THEN <<>>
    ELSE IF Head(t) = "/" THEN secure_filename(Tail(t))
    ELSE <<IF Head(t) = " " THEN "_" ELSE Head(t)>> \o secure_filename(Tail(t))

(* the position of the last dot of a name that holds one *)
LastDot(t) == CHOOSE m \in 1..Len(t) : t[m] = "." /\ \A k \in (m + 1)..Len(t) : t[k] # "."

(* name + '_' + the second of the upload + ext; the second is one symbol *)
generate_unique_filename(original_filename, second) ==
    LET safe == secure_filename(original_filename)
    IN  SubSeq(safe, 1, LastDot(safe) - 1) \o <<"_">> \o T(ToString(second))
        \o SubSeq(safe, LastDot(safe), Len(safe))

(* the second in a stored name: the symbol before its extension *)
SecondOf(path) == CHOOSE n \in 0..MaxSecond : ToString(n) = path[LastDot(path) - 1]

(* the second of the latest upload that is still on record or on disk: an    *)
(* upload arrives in that second or in a later one                            *)
LatestSecond ==
    LET paths == disk \cup {attachments[i].file_path : i \in 1..Len(attachments)}
    IN  IF paths = {} THEN 0
        ELSE CHOOSE n \in 0..MaxSecond :
                /\ \E path \in paths : SecondOf(path) = n
                /\ \A path \in paths : SecondOf(path) <= n

FileAttachment(upload, file_id, user_id, second) ==
    [filename |-> generate_unique_filename(upload.filename, second),
     original_filename |-> upload.filename,
     file_path |-> generate_unique_filename(upload.filename, second),
     file_size |-> upload.size,
     uploaded_at |-> utcnow, file_id |-> file_id, uploaded_by |-> user_id]

SaveFileChecked(upload) ==
    /\ upload.filename # <<>>
    /\ allowed_file(upload.filename)
    /\ ~(upload.size > MAX_FILE_SIZE)

SaveFile(upload, file_id, user_id) ==
    /\ user_id \in DOMAIN users /\ file_id \in DOMAIN files
    /\ UNCHANGED <<users, files, history, notifications, cocs, session,
                   today, utcSkew, tzSign, inflight>>
    /\ IF upload.filename = <<>>
       THEN /\ last' = Outcome("save_file", file_id, "invalid", <<>>)
            /\ UNCHANGED <<attachments, disk>>
       ELSE IF ~allowed_file(upload.filename)
       THEN /\ last' = Outcome("save_file", file_id, "invalid", <<>>)
            /\ UNCHANGED <<attachments, disk>>
       ELSE IF upload.size > MAX_FILE_SIZE
       THEN /\ last' = Outcome("save_file", file_id, "invalid", <<>>)
            /\ UNCHANGED <<attachments, disk>>
       ELSE \E second \in {LatestSecond, LatestSecond + 1} :
               LET attachment == FileAttachment(upload, file_id, user_id, second)
               IN  /\ disk' = disk \cup {attachment.file_path}
                   /\ attachments' = Append(attachments, attachment)
                   /\ last' = Outcome("save_file", file_id, "ok", <<>>)

(* save_file when file.save or the commit raises: the except branch rolls    *)
(* back and removes whatever is at file_path                                  *)
SaveFileFails(upload, file_id, user_id) ==
    /\ user_id \in DOMAIN users /\ file_id \in DOMAIN files
    /\ SaveFileChecked(upload)
    /\ \E second \in {LatestSecond, LatestSecond + 1} :
          disk' = disk \ {generate_unique_filename(upload.filename, second)}
    /\ last' = Outcome("save_file", file_id, "error", <<>>)
    /\ UNCHANGED <<store, session, today, utcSkew, tzSign, inflight>>

(* the record with id attachment_id: ids are the positions of the records *)
WithoutAttachment(as, attachment_id) ==
    SubSeq(as, 1, attachment_id - 1) \o SubSeq(as, attachment_id + 1, Len(as))

(* utils/upload.py delete_file *)
delete_file(attachment_id) ==
    /\ UNCHANGED <<users, files, history, notifications, cocs, session,
                   today, utcSkew, tzSign, inflight>>
    /\ IF attachment_id \notin 1..Len(attachments)
       THEN /\ last' = Outcome("delete_attachment", attachment_id, "rejected", <<>>)
            /\ UNCHANGED <<attachments, disk>>
       ELSE /\ disk' = disk \ {attachments[attachment_id].file_path}
            /\ attachments' = WithoutAttachment(attachments, attachment_id)
            /\ last' = Outcome("delete_attachment", attachment_id, "ok", <<>>)

(* delete_file when os.remove raises (the file is kept) or when the commit   *)
(* raises after the file is removed: the except branch rolls back             *)
DeleteFileFails(attachment_id, removed) ==
    /\ attachment_id \in 1..Len(attachments)
    /\ disk' = IF removed THEN disk \ {attachments[attachment_id].file_path} ELSE disk
    /\ last' = Outcome("delete_attachment", attachment_id, "error", removed)
    /\ UNCHANGED <<store, session, today, utcSkew, tzSign, inflight>>

-----------------------------------------------------------------------------
(* routes/evaluator.py *)

MinBatch == 1
MaxBatch == 10

(* variant: the newest cases first *)
RECURSIVE NewestFirst(_, _)
NewestFirst(ids, count) ==
    IF ids = {} \/ count = 0 THEN {}
    ELSE LET k == CHOOSE m \in ids : \A j \in ids : m >= j
         IN  {k} \cup NewestFirst(ids \ {k}, count - 1)

(* order_by(File.created_at).limit(count): created_at is the time of the     *)
(* insert and a new row's id is above every stored id, so among the stored    *)
(* cases the order of created_at is the order of the ids                      *)
RECURSIVE OldestFirst(_, _)
OldestFirst(ids, count) ==
    IF ids = {} \/ count = 0 THEN {}
    ELSE LET k == CHOOSE m \in ids : \A j \in ids : m <= j
         IN  {k} \cup OldestFirst(ids \ {k}, count - 1)

UnassignedPending == {k \in DOMAIN files : files[k].status = Pending /\ files[k].user_id = None}

BatchAssignFiles(u, count) ==
    /\ u \in Callers
    /\ UNCHANGED <<users, history, notifications, today, utcSkew, tzSign, inflight, disk, cocs, attachments, session>>
    /\ LET unassigned_files == OldestFirst(UnassignedPending, count)
       IN  IF ~evaluator_required(u)
           THEN /\ last' = Outcome("batch_assign_files", 0, "forbidden", <<>>)
                /\ UNCHANGED files
           ELSE IF count < MinBatch \/ count > MaxBatch
           THEN /\ last' = Outcome("batch_assign_files", 0, "invalid", <<>>)
                /\ UNCHANGED files
           ELSE IF unassigned_files = {}
           THEN /\ last' = Outcome("batch_assign_files", 0, "rejected", <<>>)
                /\ UNCHANGED files
           ELSE /\ files' = [k \in DOMAIN files |->
                                IF k \in unassigned_files
                                THEN [files[k] EXCEPT !.user_id = Some(u)] ELSE files[k]]
                /\ last' = Outcome("batch_assign_files", 0, "ok", Cardinality(unassigned_files))

StartEvaluation(u, id) ==
    /\ u \in Callers /\ id \in DOMAIN files
    /\ UNCHANGED <<users, notifications, today, utcSkew, tzSign, inflight, disk, cocs, attachments, session>>
    /\ LET file == files[id]
       IN  IF ~evaluator_required(u)
           THEN /\ last' = Outcome("start_evaluation", id, "forbidden", <<>>)
                /\ UNCHANGED <<files, history>>
           ELSE IF file.status # Pending
           THEN /\ last' = Outcome("start_evaluation", id, "rejected", <<>>)
                /\ UNCHANGED <<files, history>>
           ELSE /\ files' = [files EXCEPT ![id] = [file EXCEPT !.status = UnderEvaluation]]
                /\ history' = Append(history, HistoryEntry(id, Some(Pending), UnderEvaluation, Some(u)))
                /\ last' = Outcome("start_evaluation", id, "ok", <<>>)

AmountDomain == {0 - 5, 0, 100}

(* float(s): None stands for ValueError *)
ParseAmount(t) ==
    IF Len(t) = 1 /\ \E a \in AmountDomain : ToString(a) = t[1]
    THEN Some(CHOOSE a \in AmountDomain : ToString(a) = t[1])
    ELSE None

EvaluationValid(form) ==
    LET montant_facture_str == Strip(form.montant_facture)
        decision == Strip(form.decision)
    IN  /\ ~(decision = <<>> \/ decision \notin {Soumis, NonSoumis, Dispense})
        /\ ~(decision = Soumis /\ montant_facture_str = <<>>)
        /\ (decision = Soumis =>
               /\ ParseAmount(montant_facture_str) # None
               /\ ~(ParseAmount(montant_facture_str)[1] < 0))

(* variant: every decision sends the case to invoicing *)
EvaluatedStatusAlwaysInvoice(decision) == ReadyToInvoice

EvaluatedStatus(decision) == IF decision = Soumis THEN ReadyToInvoice ELSE Finalized

EvaluatedFile(f, form) ==
    LET decision == Strip(form.decision)
    IN  [f EXCEPT !.evaluation_reason = Some(decision),
                  !.montant_facture = IF decision = Soumis
                                      THEN ParseAmount(Strip(form.montant_facture))
                                      ELSE None,
                  !.status = EvaluatedStatus(decision)]

(* variant: an admin may evaluate a case assigned to someone else *)
AssignedToOrAdmin(f, u) == f.user_id = Some(u) \/ is_admin(u)

(* not (file.user_id != current_user.id) *)
AssignedTo(f, u) == ~(f.user_id # Some(u))

(* variant: a case whose evaluation was started can be evaluated *)
EvaluableOnceStarted(file) == file.status \in {Pending, UnderEvaluation}

(* the status evaluate_file asks for *)
Evaluable(file) == ~(file.status # Pending)

EvaluateFile(u, id, form) ==
    /\ u \in Callers /\ id \in DOMAIN files
    /\ UNCHANGED <<users, today, utcSkew, tzSign, inflight, disk, cocs, attachments, session>>
    /\ LET file == files[id]
           new_status == EvaluatedStatus(Strip(form.decision))
       IN  IF ~evaluator_required(u)
           THEN /\ last' = Outcome("evaluate_file", id, "forbidden", <<>>)
                /\ UNCHANGED <<files, history, notifications>>
           ELSE IF ~Evaluable(file)
           THEN /\ last' = Outcome("evaluate_file", id, "rejected", "status")
                /\ UNCHANGED <<files, history, notifications>>
           ELSE IF ~AssignedTo(file, u)
           THEN /\ last' = Outcome("evaluate_file", id, "rejected", "owner")
                /\ UNCHANGED <<files, history, notifications>>
           ELSE IF ~EvaluationValid(form)
           THEN /\ last' = Outcome("evaluate_file", id, "invalid", <<>>)
                /\ UNCHANGED <<files, history, notifications>>
           ELSE /\ files' = [files EXCEPT ![id] = EvaluatedFile(file, form)]
                /\ history' = Append(history, HistoryEntry(id, Some(file.status), new_status, Some(u)))
                /\ notifications' =
                      IF new_status = ReadyToInvoice
                      THEN notifications \o NotifyAll(UsersWithRole(Invoicing), Some(id), "info")
                      ELSE notifications
                /\ last' = Outcome("evaluate_file", id, "ok", <<>>)

-----------------------------------------------------------------------------
(* routes/invoice.py process_invoice (POST) *)

allowed_extensions ==
    { <<"p", "d", "f">>, <<"d", "o", "c">>, <<"d", "o", "c", "x">>, <<"j", "p", "g">>,
      <<"j", "p", "e", "g">>, <<"p", "n", "g">> }

NumberValid(number) ==
    ~(number = <<>>) /\ ~(Len(number) < MinNumberLen \/ Len(number) > MaxNumberLen)

PaymentFileValid(filename) ==
    /\ ~(filename = <<>>)
    /\ ~(~HasDot(Lower(filename)) \/ AfterLastDot(Lower(filename)) \notin allowed_extensions)

InvoiceValid(form) ==
    /\ NumberValid(Strip(form.mar_number))
    /\ NumberValid(Strip(form.proforma_number))
    /\ PaymentFileValid(form.payment_justification)

(* variant: the numbers are stored as typed, trimmed but not upper-cased *)
InvoicedFileAsTyped(f, u, form) ==
    [f EXCEPT !.mar_number = Some(Strip(form.mar_number)),
              !.proforma_number = Some(Strip(form.proforma_number)),
              !.payment_justification_path =
                  Some(f.file_number \o <<"_">> \o DateText(today) \o <<".">>
                       \o AfterLastDot(form.payment_justification)),
              !.status = Payed,
              !.invoiced_at = Some(utcnow),
              !.invoiced_by = Some(u)]

(* variant: the ProForma number is not stored *)
InvoicedFileWithoutProforma(f, u, form) ==
    [f EXCEPT !.mar_number = Some(Upper(Strip(form.mar_number))),
              !.payment_justification_path =
                  Some(f.file_number \o <<"_">> \o DateText(today) \o <<".">>
                       \o AfterLastDot(form.payment_justification)),
              !.status = Payed,
              !.invoiced_at = Some(utcnow),
              !.invoiced_by = Some(u)]

InvoicedFile(f, u, form) ==
    [f EXCEPT !.mar_number = Some(Upper(Strip(form.mar_number))),
              !.proforma_number = Some(Upper(Strip(form.proforma_number))),
              !.payment_justification_path =
                  Some(f.file_number \o <<"_">> \o DateText(today) \o <<".">>
                       \o AfterLastDot(form.payment_justification)),
              !.status = Payed,
              !.invoiced_at = Some(utcnow),
              !.invoiced_by = Some(u)]

ProcessInvoice(u, id, form) ==
    /\ u \in Callers /\ id \in DOMAIN files
    /\ UNCHANGED <<users, history, today, utcSkew, tzSign, inflight, disk, cocs, attachments, session>>
    /\ LET file == files[id]
       IN  IF ~invoicing_required(u)
           THEN /\ last' = Outcome("process_invoice", id, "forbidden", <<>>)
                /\ UNCHANGED <<files, notifications>>
           ELSE IF ~can_be_invoiced(file)
           THEN /\ last' = Outcome("process_invoice", id, "rejected", <<>>)
                /\ UNCHANGED <<files, notifications>>
           ELSE IF is_invoiced(file)
           THEN /\ last' = Outcome("process_invoice", id, "rejected", <<>>)
                /\ UNCHANGED <<files, notifications>>
           ELSE IF ~InvoiceValid(form)
           THEN /\ last' = Outcome("process_invoice", id, "invalid", <<>>)
                /\ UNCHANGED <<files, notifications>>
           ELSE /\ files' = [files EXCEPT ![id] = InvoicedFile(file, u, form)]
                   (* the case is committed before the notifications are added; a   *)
                   (* notification for no user violates NOT NULL and the second     *)
                   (* commit rolls back, the notifications for the admins with it   *)
                /\ IF file.user_id = None
                   THEN /\ UNCHANGED notifications
                        /\ last' = Outcome("process_invoice", id, "error", <<>>)
                   ELSE /\ notifications' =
                              notifications
                              \o <<NotificationRow(file.user_id, Some(id), "info")>>
                              \o NotifyAll(UsersWithRole(Admin), Some(id), "info")
                        /\ last' = Outcome("process_invoice", id, "ok", <<>>)

-----------------------------------------------------------------------------
(* utils/scheduler.py check_and_send_recalls, run by the scheduler's jobs   *)
(* and by routes/admin.py trigger_recalls                                   *)

FilesToRecall ==
    {k \in DOMAIN files :
        /\ files[k].recall_date # None
        /\ files[k].recall_date[1] <= today
        /\ files[k].status # Finalized}

RecallSentToday(ns, k) ==
    \E i \in 1..Len(ns) :
        /\ ns[i].file_id = Some(k)
        /\ ns[i].notification_type = "recall"
        /\ ns[i].created_at >= today

(* one pass of the loop body for case k *)
RecallFile(ns, k) ==
    IF RecallSentToday(ns, k) THEN ns
    ELSE IF files[k].user_id = None THEN ns
    ELSE ns \o <<NotificationRow(files[k].user_id, Some(k), "recall")>>
            \o NotifyAll(UsersWithRole(Admin), Some(k), "recall")

RECURSIVE RecallAll(_, _)
RecallAll(ns, ids) ==
    IF ids = {} THEN ns
    ELSE LET k == CHOOSE m \in ids : \A j \in ids : m <= j
         IN  RecallAll(RecallFile(ns, k), ids \ {k})

check_and_send_recalls == RecallAll(notifications, FilesToRecall)

(* the loop of check_and_send_recalls when the commit of the cases in        *)
(* failing fails.  The handler of the failure formats file.file_number        *)
(* before it rolls back (scheduler.py 87-88): when the failure left the       *)
(* session unusable until rollback and the case expired, that read raises     *)
(* outside the try and ends the loop (aborts); otherwise the loop goes on.    *)
RECURSIVE RecallRun(_, _, _, _)
RecallRun(ns, ids, failing, aborts) ==
    IF ids = {} THEN ns
    ELSE LET k == CHOOSE m \in ids : \A j \in ids : m <= j
         IN  IF k \in failing /\ RecallFile(ns, k) # ns
             THEN (IF aborts THEN ns ELSE RecallRun(ns, ids \ {k}, failing, aborts))
             ELSE RecallRun(RecallFile(ns, k), ids \ {k}, failing, aborts)

(* the commits that failed in a run: those of the cases of failing that the  *)
(* loop reached with notifications to commit                                  *)
RECURSIVE FailedCommits(_, _, _, _)
FailedCommits(ns, ids, failing, aborts) ==
    IF ids = {} THEN {}
    ELSE LET k == CHOOSE m \in ids : \A j \in ids : m <= j
         IN  IF k \in failing /\ RecallFile(ns, k) # ns
             THEN {k} \cup (IF aborts THEN {} ELSE FailedCommits(ns, ids \ {k}, failing, aborts))
             ELSE FailedCommits(RecallFile(ns, k), ids \ {k}, failing, aborts)

FaultyRecalls(failing, aborts) ==
    /\ notifications' = RecallRun(notifications, FilesToRecall, failing, aborts)
    /\ LET failed == FailedCommits(notifications, FilesToRecall, failing, aborts)
       IN  last' = Outcome("check_and_send_recalls", 0,
                           IF failed # {} /\ aborts THEN "error" ELSE "ok", failed)
    /\ UNCHANGED <<users, files, history, today, utcSkew, tzSign, inflight, disk, cocs, attachments, session>>

ScheduledRecalls ==
    /\ notifications' = check_and_send_recalls
    /\ last' = Outcome("check_and_send_recalls", 0, "ok", <<>>)
    /\ UNCHANGED <<users, files, history, today, utcSkew, tzSign, inflight, disk, cocs, attachments, session>>

TriggerRecalls(u) ==
    /\ u \in Callers
    /\ UNCHANGED <<users, files, history, today, utcSkew, tzSign, inflight, disk, cocs, attachments, session>>
    /\ IF ~admin_required(u)
       THEN /\ last' = Outcome("trigger_recalls", 0, "forbidden", <<>>)
            /\ UNCHANGED notifications
       ELSE /\ notifications' = check_and_send_recalls
            /\ last' = Outcome("trigger_recalls", 0, "ok", <<>>)

(* time passes: the next change of the local or of the UTC date *)
Tick ==
    /\ today < MaxDay
    /\ IF tzSign = 0 THEN today' = today + 1 /\ utcSkew' = FALSE
       ELSE IF tzSign < 0
       THEN (IF utcSkew THEN today' = today /\ utcSkew' = FALSE
                        ELSE today' = today + 1 /\ utcSkew' = TRUE)
       ELSE (IF utcSkew THEN today' = today + 1 /\ utcSkew' = FALSE
                        ELSE today' = today /\ utcSkew' = TRUE)
    /\ last' = Outcome("tick", 0, "ok", <<>>)
    /\ UNCHANGED <<users, files, history, notifications, tzSign, inflight, disk, cocs, attachments, session>>

-----------------------------------------------------------------------------
(* Requests and recall runs that overlap in time.  Each runs in a thread of  *)
(* its own with a database session of its own (the scheduler's background    *)
(* thread, the request threads of the server); what it has read and what it   *)
(* has added to its session and not committed is its entry in inflight.       *)

Threads == 1..MaxInflight

Idle(p) == p \in Threads /\ p \notin DOMAIN inflight

Started(p, state) == inflight' = (p :> state) @@ inflight

Ended(p) == inflight' = [q \in DOMAIN inflight \ {p} |-> inflight[q]]

Moved(p, state) == inflight' = [inflight EXCEPT ![p] = state]

(* scheduler.py 19-25: the date and the cases are read once, at the start *)
RecallBegin(p) ==
    /\ Idle(p)
    /\ FilesToRecall # {}
    /\ Started(p, [op |-> "recalls", ids |-> FilesToRecall, pending |-> 0, rows |-> <<>>])
    /\ last' = Outcome("recall_run", p, "begin", <<>>)
    /\ UNCHANGED <<store, session, today, utcSkew, tzSign, disk>>

(* scheduler.py 38-79: the same-day query for the next case, and the         *)
(* notifications added to the session when it finds nothing                   *)
RecallCheck(p) ==
    /\ p \in DOMAIN inflight /\ inflight[p].op = "recalls"
    /\ inflight[p].pending = 0 /\ inflight[p].ids # {}
    /\ LET run == inflight[p]
           k == CHOOSE m \in run.ids : \A j \in run.ids : m <= j
           ns == RecallFile(notifications, k)
           rows == SubSeq(ns, Len(notifications) + 1, Len(ns))
       IN  IF rows = <<>>
           THEN /\ Moved(p, [run EXCEPT !.ids = run.ids \ {k}])
                /\ last' = Outcome("recall_run", p, "skipped", <<>>)
           ELSE /\ Moved(p, [run EXCEPT !.pending = k, !.rows = rows])
                /\ last' = Outcome("recall_run", p, "checked", <<>>)
    /\ UNCHANGED <<store, session, today, utcSkew, tzSign, disk>>

(* scheduler.py 82: the commit of the notifications of one case *)
RecallCommit(p) ==
    /\ p \in DOMAIN inflight /\ inflight[p].op = "recalls"
    /\ inflight[p].pending # 0
    /\ LET run == inflight[p]
       IN  /\ notifications' = notifications \o run.rows
           /\ Moved(p, [run EXCEPT !.ids = run.ids \ {run.pending}, !.pending = 0,
                                   !.rows = <<>>])
    /\ last' = Outcome("recall_run", p, "committed", <<>>)
    /\ UNCHANGED <<users, files, history, cocs, attachments, session, today, utcSkew,
                   tzSign, disk>>

(* scheduler.py 91: the loop has no case left *)
RecallEnd(p) ==
    /\ p \in DOMAIN inflight /\ inflight[p].op = "recalls"
    /\ inflight[p].pending = 0 /\ inflight[p].ids = {}
    /\ Ended(p)
    /\ last' = Outcome("recall_run", p, "ok", <<>>)
    /\ UNCHANGED <<store, session, today, utcSkew, tzSign, disk>>

(* user.py 380-390: self_assign_file reads the case and checks it *)
SelfAssignLoad(p, u, id) ==
    /\ Idle(p) /\ u \in DOMAIN users /\ id \in DOMAIN files
    /\ user_required(u) /\ SelfAssignable(files[id])
    /\ Started(p, [op |-> "self_assign_file", user |-> u, file |-> id,
                   old_status |-> files[id].status, written |-> FALSE])
    /\ last' = Outcome("self_assign_file", id, "loaded", <<>>)
    /\ UNCHANGED <<store, session, today, utcSkew, tzSign, disk>>

(* user.py 392-400: the first commit writes the two attributes the request   *)
(* changed on the row it read, by primary key, whatever the row holds now     *)
SelfAssignWrite(p) ==
    /\ p \in DOMAIN inflight /\ inflight[p].op = "self_assign_file"
    /\ ~inflight[p].written
    /\ LET req == inflight[p]
       IN  /\ req.file \in DOMAIN files
           /\ files' = [files EXCEPT ![req.file] =
                            [@ EXCEPT !.user_id = Some(req.user), !.status = InProcessing]]
           /\ Moved(p, [req EXCEPT !.written = TRUE])
           /\ last' = Outcome("self_assign_file", req.file, "committed", <<>>)
    /\ UNCHANGED <<users, history, notifications, cocs, attachments, session, today,
                   utcSkew, tzSign, disk>>

(* user.py 402-413: the history entry, with the status read at the start *)
SelfAssignRecord(p) ==
    /\ p \in DOMAIN inflight /\ inflight[p].op = "self_assign_file"
    /\ inflight[p].written
    /\ LET req == inflight[p]
       IN  /\ history' = Append(history, HistoryEntry(req.file, Some(req.old_status),
                                                      InProcessing, Some(req.user)))
           /\ last' = Outcome("self_assign_file", req.file, "ok", <<>>)
    /\ Ended(p)
    /\ UNCHANGED <<users, files, notifications, cocs, attachments, session, today,
                   utcSkew, tzSign, disk>>

(* evaluator.py 195-210: batch_assign_files reads the cases it will take *)
BatchAssignLoad(p, u, count) ==
    /\ Idle(p) /\ u \in DOMAIN users
    /\ evaluator_required(u)
    /\ ~(count < MinBatch \/ count > MaxBatch)
    /\ OldestFirst(UnassignedPending, count) # {}
    /\ Started(p, [op |-> "batch_assign_files", user |-> u,
                   ids |-> OldestFirst(UnassignedPending, count)])
    /\ last' = Outcome("batch_assign_files", 0, "loaded", <<>>)
    /\ UNCHANGED <<store, session, today, utcSkew, tzSign, disk>>

(* evaluator.py 212-220: the owner is written on every case read, by primary *)
(* key, and the number of cases read is reported                              *)
BatchAssignWrite(p) ==
    /\ p \in DOMAIN inflight /\ inflight[p].op = "batch_assign_files"
    /\ LET req == inflight[p]
       IN  /\ req.ids \subseteq DOMAIN files
           /\ files' = [k \in DOMAIN files |->
                           IF k \in req.ids
                           THEN [files[k] EXCEPT !.user_id = Some(req.user)] ELSE files[k]]
           /\ last' = Outcome("batch_assign_files", 0, "ok", Cardinality(req.ids))
    /\ Ended(p)
    /\ UNCHANGED <<users, history, notifications, cocs, attachments, session, today,
                   utcSkew, tzSign, disk>>

-----------------------------------------------------------------------------
(* utils/kpi.py TemporalKPI.get_average_time_by_stage and routes/kpi.py      *)
(* temporal.  Times are in days; an average is kept in tenths of a day.      *)

stages == {Pending, UnderEvaluation, ReadyToInvoice, Payed, InProcessing, Inspection, Finalized}

(* StatusHistory.query.filter_by(old_status=stage).all() *)
TransitionsFrom(h, stage) == {i \in 1..Len(h) : h[i].old_status = Some(stage)}

(* filter_by(file_id, new_status=stage).order_by(changed_at.desc()).first(): *)
(* the position of the entry, 0 for None                                      *)
LatestEntry(h, file_id, stage) ==
    LET entries == {j \in 1..Len(h) : h[j].file_id = file_id /\ h[j].new_status = stage}
    IN  IF entries = {} THEN 0
        ELSE CHOOSE j \in entries : \A k \in entries : h[k].changed_at <= h[j].changed_at

(* variant: the entry looked for is the latest one before the transition *)
EntryBeforeExit(h, i, stage) ==
    LET entries == {j \in 1..(i - 1) :
                       h[j].file_id = h[i].file_id /\ h[j].new_status = stage}
    IN  IF entries = {} THEN 0
        ELSE CHOOSE j \in entries : \A k \in entries : k <= j

(* the entry the loop takes for transition i *)
EntryOf(h, i, stage) == LatestEntry(h, h[i].file_id, stage)

(* the transitions that add to total_time and count *)
CountedTransitions(h, stage) ==
    {i \in TransitionsFrom(h, stage) :
        /\ EntryOf(h, i, stage) # 0
        /\ h[i].changed_at - h[EntryOf(h, i, stage)].changed_at >= 0}

RECURSIVE TotalTime(_, _, _)
TotalTime(h, stage, is) ==
    IF is = {} THEN 0
    ELSE LET i == CHOOSE m \in is : TRUE
         IN  (h[i].changed_at - h[EntryOf(h, i, stage)].changed_at)
             + TotalTime(h, stage, is \ {i})

(* round(total_time / count, 1), in tenths: halves go to the even tenth *)
RoundTenths(total_time, count) ==
    LET q == (10 * total_time) \div count
        r == (10 * total_time) % count
    IN  IF 2 * r < count THEN q
        ELSE IF 2 * r > count THEN q + 1
        ELSE IF q % 2 = 0 THEN q ELSE q + 1

get_average_time_by_stage(h) ==
    [stage \in stages |->
        IF TransitionsFrom(h, stage) = {} THEN None
        ELSE LET counted == CountedTransitions(h, stage)
             IN  IF Cardinality(counted) > 0
                 THEN Some(RoundTenths(TotalTime(h, stage, counted), Cardinality(counted)))
                 ELSE None]

Temporal(u) ==
    /\ u \in Callers
    /\ IF ~is_authenticated(u)
       THEN last' = Outcome("temporal", 0, "forbidden", <<>>)
       ELSE last' = Outcome("temporal", 0, "ok", get_average_time_by_stage(history))
    /\ UNCHANGED <<store, session, today, utcSkew, tzSign, inflight, disk>>

(* a day passes on a UTC server *)
Elapse ==
    /\ tzSign = 0
    /\ today' = today + 1
    /\ last' = Outcome("tick", 0, "ok", <<>>)
    /\ UNCHANGED <<store, session, utcSkew, tzSign, inflight, disk>>

-----------------------------------------------------------------------------
(* evaluate_file, self_assign_file and edit_file commit the case first and   *)
(* the status-history entry (and the notifications) in a second commit.       *)
(* These are the requests in which that second commit fails: the handler's    *)
(* except branch runs, and what the first commit wrote stays.                 *)

EvaluateFileSecondCommitFails(u, id, form) ==
    /\ u \in Callers /\ id \in DOMAIN files
    /\ evaluator_required(u) /\ Evaluable(files[id]) /\ AssignedTo(files[id], u)
    /\ EvaluationValid(form)
    /\ files' = [files EXCEPT ![id] = EvaluatedFile(files[id], form)]
    /\ last' = Outcome("evaluate_file", id, "error", "second commit")
    /\ UNCHANGED <<users, history, notifications, today, utcSkew, tzSign, inflight, disk, cocs, attachments,
                   session>>

SelfAssignFileSecondCommitFails(u, id) ==
    /\ u \in Callers /\ id \in DOMAIN files
    /\ user_required(u) /\ SelfAssignable(files[id])
    /\ files' = [files EXCEPT ![id] = SelfAssignedFile(files[id], u)]
    /\ last' = Outcome("self_assign_file", id, "error", "second commit")
    /\ UNCHANGED <<users, history, notifications, today, utcSkew, tzSign, inflight, disk, cocs, attachments,
                   session>>

EditFileSecondCommitFails(u, id, form) ==
    /\ u \in Callers /\ id \in DOMAIN files
    /\ user_required(u) /\ OwnerOrAdmin(u, files[id])
    /\ EditFileValid(form)
    /\ ~(Strip(form.status) = ToComplete /\ Strip(form.completion_description) = <<>>)
    /\ EditFileDatesValid(form)
    /\ files[id].status # Strip(form.status)
    /\ files' = [files EXCEPT ![id] = EditedFile(files[id], form)]
    /\ last' = Outcome("edit_file", id, "error", "second commit")
    /\ UNCHANGED <<users, history, notifications, today, utcSkew, tzSign, inflight, disk, cocs, attachments,
                   session>>

-----------------------------------------------------------------------------
(* utils/export.py export_files_to_csv and routes/admin.py export_files.    *)
(* The CSV text is modelled as its rows, a row as its cells.                 *)

ExportHeader ==
    <<T("Numéro Dossier"), T("Date Réception"), T("Importateur"), T("Exportateur"),
      T("Pays"), T("Route"), T("Numéro SOR"), T("Numéro SOL"), T("Statut"),
      T("Date Rappel"), T("Utilisateur"), T("Email Utilisateur"), T("Date Création"),
      T("Dernière Modification"), T("CoC Numéro"), T("CoC Date"), T("Facture Numéro")>>

(* d.strftime(format) *)
strftime(d, format) == <<format, ToString(d)>>

(* value or '' *)
OrEmpty(opt) == IF Truthy(opt) THEN opt[1] ELSE <<>>

(* file.coc_details: the CoC row of the case, None when there is none *)
CocOf(cs, id) ==
    IF HasCoc(cs, id) THEN Some(cs[CHOOSE i \in 1..Len(cs) : cs[i].file_id = id]) ELSE None

ExportCells(f, owner_name, owner_email, cs) ==
    LET coc == CocOf(cs, f.id)
    IN  <<f.file_number,
          strftime(f.receipt_date[1], "%d/%m/%Y"),
          f.importer, f.exporter, f.country, f.route,
          OrEmpty(f.sor_number), OrEmpty(f.sol_number),
          f.status,
          IF f.recall_date # None THEN strftime(f.recall_date[1], "%d/%m/%Y") ELSE <<>>,
          owner_name, owner_email,
          <<"created_at", "%d/%m/%Y %H:%M">>, <<"updated_at", "%d/%m/%Y %H:%M">>,
          IF coc # None THEN coc[1].coc_number ELSE <<>>,
          IF coc # None THEN strftime(coc[1].coc_date, "%d/%m/%Y") ELSE <<>>,
          IF coc # None THEN coc[1].invoice_number ELSE <<>> >>

(* variant: a case without owner is written with empty owner cells *)
ExportRowOwnerOptional(f, us, cs) ==
    IF f.user_id = None
    THEN [raised |-> FALSE, cells |-> ExportCells(f, <<>>, <<>>, cs)]
    ELSE [raised |-> FALSE,
          cells |-> ExportCells(f, us[f.user_id[1]].username, us[f.user_id[1]].email, cs)]

(* one writer.writerow of the loop; file.owner.username raises on None *)
ExportRow(f, us, cs) ==
    IF f.user_id = None
    THEN [raised |-> TRUE, cells |-> <<>>]
    ELSE [raised |-> FALSE,
          cells |-> ExportCells(f, us[f.user_id[1]].username, us[f.user_id[1]].email, cs)]

(* list is the sequence of the ids of the cases handed over *)
export_files_to_csv(fs, us, cs, list) ==
    LET rows == [i \in 1..Len(list) |-> ExportRow(fs[list[i]], us, cs)]
    IN  IF \E i \in 1..Len(list) : rows[i].raised
        THEN [raised |-> TRUE, rows |-> <<>>]
        ELSE [raised |-> FALSE,
              rows |-> <<ExportHeader>> \o [i \in 1..Len(list) |-> rows[i].cells]]

(* File.query.order_by(File.created_at.desc()).all(): newest first *)
RECURSIVE NewestFirstList(_)
NewestFirstList(ids) ==
    IF ids = {} THEN <<>>
    ELSE LET k == CHOOSE m \in ids : \A j \in ids : m >= j
         IN  <<k>> \o NewestFirstList(ids \ {k})

ExportFiles(u) ==
    /\ u \in Callers
    /\ UNCHANGED <<store, session, today, utcSkew, tzSign, inflight, disk>>
    /\ IF ~admin_required(u)
       THEN last' = Outcome("export_files", 0, "forbidden", <<>>)
       ELSE LET csv_data == export_files_to_csv(files, users, cocs, NewestFirstList(DOMAIN files))
            IN  IF csv_data.raised
                THEN last' = Outcome("export_files", 0, "error", <<>>)
                ELSE last' = Outcome("export_files", 0, "ok", csv_data.rows)

-----------------------------------------------------------------------------
(* routes/auth.py login, register and logout, routes/admin.py                *)
(* toggle_user_status, and the account scripts create_admin.py and            *)
(* init_db.py.  session is the login session of one browser: the id of the    *)
(* account it is logged in as, or None.                                        *)

(* User.query.filter_by(username=...).first(): the row's id, 0 for None *)
UserByUsername(us, username) ==
    IF \E k \in DOMAIN us : us[k].username = username
    THEN CHOOSE k \in DOMAIN us : us[k].username = username /\ \A j \in 1..(k - 1) : us[j].username # username
    ELSE 0

(* User.query.filter_by(email=...).first() is not None *)
EmailExists(us, email) == \E k \in DOMAIN us : us[k].email = email

User(username, email, password, role) ==
    [username |-> username, email |-> email,
     password_hash |-> generate_password_hash(password), role |-> role, is_active |-> TRUE]

FieldsRequired == "Tous les champs sont requis."
Incorrect == "Nom d'utilisateur ou mot de passe incorrect."
Deactivated == "Votre compte a été désactivé. Contactez l'administrateur."
Welcome == "Bienvenue"

LoginResponse(outcome, message, user) == [outcome |-> outcome, message |-> message, user |-> user]

(* variant: the active flag is looked at before the password *)
LoginResultActiveFirst(us, form) ==
    LET username == Strip(form.username)
        password == form.password
        k == UserByUsername(us, username)
    IN  IF username = <<>> \/ password = <<>>
        THEN LoginResponse("invalid", FieldsRequired, 0)
        ELSE IF k # 0 /\ ~us[k].is_active
        THEN LoginResponse("rejected", Deactivated, 0)
        ELSE IF k = 0 \/ ~check_password(us[k], password)
        THEN LoginResponse("rejected", Incorrect, 0)
        ELSE LoginResponse("ok", Welcome, k)

(* variant: the active flag is not looked at *)
LoginResultAnyAccount(us, form) ==
    LET username == Strip(form.username)
        password == form.password
        k == UserByUsername(us, username)
    IN  IF username = <<>> \/ password = <<>>
        THEN LoginResponse("invalid", FieldsRequired, 0)
        ELSE IF k = 0 \/ ~check_password(us[k], password)
        THEN LoginResponse("rejected", Incorrect, 0)
        ELSE LoginResponse("ok", Welcome, k)

(* what login answers to an anonymous browser: how the request ends, the     *)
(* message flashed, and the account logged in (0 for none)                    *)
LoginResult(us, form) ==
    LET username == Strip(form.username)
        password == form.password
        k == UserByUsername(us, username)
    IN  IF username = <<>> \/ password = <<>>
        THEN LoginResponse("invalid", FieldsRequired, 0)
        ELSE IF k = 0 \/ ~check_password(us[k], password)
        THEN LoginResponse("rejected", Incorrect, 0)
        ELSE IF ~us[k].is_active
        THEN LoginResponse("rejected", Deactivated, 0)
        ELSE LoginResponse("ok", Welcome, k)

(* current_user.is_authenticated for the browser.  Flask-Login derives it     *)
(* from is_active in its recent versions and answers True for every loaded    *)
(* user in the older ones: strict tells which.                                 *)
SessionAuthenticated(strict) ==
    session # None /\ (strict => users[session[1]].is_active)

Login(form, strict) ==
    /\ UNCHANGED <<store, today, utcSkew, tzSign, inflight, disk>>
    /\ IF SessionAuthenticated(strict)
       THEN /\ last' = Outcome("login", Strip(form.username), "redirect", <<>>)
            /\ UNCHANGED session
       ELSE LET r == LoginResult(users, form)
            IN  /\ session' = IF r.user # 0 THEN Some(r.user) ELSE session
                /\ last' = Outcome("login", Strip(form.username), r.outcome, r.message)

Logout(strict) ==
    /\ UNCHANGED <<store, today, utcSkew, tzSign, inflight, disk>>
    /\ IF ~SessionAuthenticated(strict)
       THEN /\ last' = Outcome("logout", 0, "forbidden", <<>>)
            /\ UNCHANGED session
       ELSE /\ session' = None
            /\ last' = Outcome("logout", 0, "ok", <<>>)

RegisterValid(form) ==
    /\ validate_username(Strip(form.username))
    /\ validate_email(Strip(form.email))
    /\ validate_password(form.password)
    /\ ~(form.password # form.confirm_password)

Register(form, strict) ==
    /\ UNCHANGED <<files, history, notifications, cocs, attachments, session,
                   today, utcSkew, tzSign, inflight, disk>>
    /\ LET username == Strip(form.username)
           email == Strip(form.email)
       IN  IF SessionAuthenticated(strict)
           THEN /\ last' = Outcome("register", username, "redirect", <<>>)
                /\ UNCHANGED users
           ELSE IF ~RegisterValid(form)
           THEN /\ last' = Outcome("register", username, "invalid", <<>>)
                /\ UNCHANGED users
           ELSE IF UserByUsername(users, username) # 0
           THEN /\ last' = Outcome("register", username, "rejected", "username")
                /\ UNCHANGED users
           ELSE IF EmailExists(users, Lower(email))
           THEN /\ last' = Outcome("register", username, "rejected", "email")
                /\ UNCHANGED users
           ELSE /\ users' = Append(users, User(username, Lower(email), form.password, PlainUser))
                /\ last' = Outcome("register", username, "ok", <<>>)

(* create_admin.py: the e-mail is not looked up; the commit of a row whose   *)
(* e-mail another row has fails on the unique index and the script ends with  *)
(* the exception                                                              *)
CreateAdmin(username, email, password) ==
    /\ UNCHANGED <<files, history, notifications, cocs, attachments, session,
                   today, utcSkew, tzSign, inflight, disk>>
    /\ IF UserByUsername(users, username) # 0
       THEN /\ last' = Outcome("create_admin", username, "rejected", "username")
            /\ UNCHANGED users
       ELSE IF EmailExists(users, email)
       THEN /\ last' = Outcome("create_admin", username, "error", "email")
            /\ UNCHANGED users
       ELSE /\ users' = Append(users, User(username, email, password, Admin))
            /\ last' = Outcome("create_admin", username, "ok", <<>>)

(* init_db.py init_database: input holds what the operator types *)
InitDatabase(input) ==
    /\ UNCHANGED <<files, history, notifications, cocs, attachments, session,
                   today, utcSkew, tzSign, inflight, disk>>
    /\ LET username == Strip(input.username)
           email == Strip(input.email)
       IN  IF UsersWithRole(Admin) # {} /\ Lower(input.response) # <<"y">>
           THEN /\ last' = Outcome("init_database", username, "exit", <<>>)
                /\ UNCHANGED users
           ELSE IF username = <<>> \/ email = <<>> \/ input.password = <<>>
           THEN /\ last' = Outcome("init_database", username, "invalid", <<>>)
                /\ UNCHANGED users
           ELSE IF input.password # input.password_confirm
           THEN /\ last' = Outcome("init_database", username, "invalid", <<>>)
                /\ UNCHANGED users
           ELSE IF UserByUsername(users, username) # 0
           THEN /\ last' = Outcome("init_database", username, "rejected", "username")
                /\ UNCHANGED users
           ELSE IF EmailExists(users, email)
           THEN /\ last' = Outcome("init_database", username, "rejected", "email")
                /\ UNCHANGED users
           ELSE /\ users' = Append(users, User(username, email, input.password, Admin))
                /\ last' = Outcome("init_database", username, "ok", <<>>)

(* variant: the admin's own account is not told apart *)
IsSelfNever(u, user_id) == FALSE

(* user.id == current_user.id *)
IsSelf(u, user_id) == user_id = u

ToggleUserStatus(u, user_id) ==
    /\ u \in Callers /\ user_id \in DOMAIN users
    /\ UNCHANGED <<files, history, notifications, cocs, attachments, session,
                   today, utcSkew, tzSign, inflight, disk>>
    /\ IF ~admin_required(u)
       THEN /\ last' = Outcome("toggle_user_status", user_id, "forbidden", <<>>)
            /\ UNCHANGED users
       ELSE IF IsSelf(u, user_id)
       THEN /\ last' = Outcome("toggle_user_status", user_id, "rejected", "self")
            /\ UNCHANGED users
       ELSE /\ users' = [users EXCEPT ![user_id].is_active = ~@]
            /\ last' = Outcome("toggle_user_status", user_id, "ok", <<>>)

ToggleUserRole(u, user_id) ==
    /\ u \in Callers /\ user_id \in DOMAIN users
    /\ UNCHANGED <<files, history, notifications, cocs, attachments, session,
                   today, utcSkew, tzSign, inflight, disk>>
    /\ IF ~admin_required(u)
       THEN /\ last' = Outcome("toggle_user_role", user_id, "forbidden", <<>>)
            /\ UNCHANGED users
       ELSE IF IsSelf(u, user_id)
       THEN /\ last' = Outcome("toggle_user_role", user_id, "rejected", "self")
            /\ UNCHANGED users
       ELSE /\ users' = [users EXCEPT ![user_id].role = IF @ = Admin THEN PlainUser ELSE Admin]
            /\ last' = Outcome("toggle_user_role", user_id, "ok", <<>>)

valid_roles == {PlainUser, Admin, Invoicing, Affecteur, Evaluateur}

(* the audit entry written after the commit is not part of the model: its   *)
(* failure is swallowed and the role is committed before it                  *)
SetUserRole(u, user_id, role) ==
    /\ u \in Callers /\ user_id \in DOMAIN users
    /\ UNCHANGED <<files, history, notifications, cocs, attachments, session,
                   today, utcSkew, tzSign, inflight, disk>>
    /\ IF ~admin_required(u)
       THEN /\ last' = Outcome("set_user_role", user_id, "forbidden", <<>>)
            /\ UNCHANGED users
       ELSE IF IsSelf(u, user_id)
       THEN /\ last' = Outcome("set_user_role", user_id, "rejected", "self")
            /\ UNCHANGED users
       ELSE IF role \notin valid_roles
       THEN /\ last' = Outcome("set_user_role", user_id, "rejected", "role")
            /\ UNCHANGED users
       ELSE /\ users' = [users EXCEPT ![user_id].role = role]
            /\ last' = Outcome("set_user_role", user_id, "ok", <<>>)

-----------------------------------------------------------------------------
(* The admin's requests on accounts, when several are served at a time.     *)

(* admin.py 12-27 before_request: current_user is loaded from the session    *)
(* cookie (app.py 45-47) and must be authenticated and an admin.  Flask-Login *)
(* derives is_authenticated from is_active in its recent versions and answers *)
(* True for every loaded user in the older ones: strict tells which.          *)
AdminAdmitted(u, strict) == admin_required(u) /\ (strict => users[u].is_active)

(* the attribute a request sets on the account it loaded, and its value *)
AccountChange(op, user, role) ==
    IF op = "toggle_user_status"
    THEN [field |-> "is_active", is_active |-> ~user.is_active, role |-> user.role]
    ELSE IF op = "toggle_user_role"
    THEN [field |-> "role", is_active |-> user.is_active,
          role |-> IF user.role = Admin THEN PlainUser ELSE Admin]
    ELSE [field |-> "role", is_active |-> user.is_active, role |-> role]

(* admin.py 118-125, 137-144, 156-170: the guard of the route group, the      *)
(* account read by id, the block on self-change, the role check, and the      *)
(* attribute set on the loaded account                                         *)
AccountLoad(p, u, op, user_id, role, strict) ==
    /\ Idle(p) /\ u \in DOMAIN users /\ user_id \in DOMAIN users
    /\ op \in {"toggle_user_status", "toggle_user_role", "set_user_role"}
    /\ AdminAdmitted(u, strict)
    /\ ~IsSelf(u, user_id)
    /\ op = "set_user_role" => role \in valid_roles
    /\ Started(p, [op |-> op, user |-> u, target |-> user_id,
                   change |-> AccountChange(op, users[user_id], role)])
    /\ last' = Outcome(op, user_id, "loaded", <<>>)
    /\ UNCHANGED <<store, session, today, utcSkew, tzSign, disk>>

(* admin.py 126, 145, 171 db.session.commit(): the attribute the request set  *)
(* is written on the row, by primary key, whatever the row holds now           *)
AccountCommit(p) ==
    /\ p \in DOMAIN inflight
    /\ inflight[p].op \in {"toggle_user_status", "toggle_user_role", "set_user_role"}
    /\ LET req == inflight[p]
       IN  /\ users' = [users EXCEPT ![req.target] =
                            IF req.change.field = "is_active"
                            THEN [@ EXCEPT !.is_active = req.change.is_active]
                            ELSE [@ EXCEPT !.role = req.change.role]]
           /\ last' = Outcome(req.op, req.target, "ok", <<>>)
    /\ Ended(p)
    /\ UNCHANGED <<files, history, notifications, cocs, attachments, session, today,
                   utcSkew, tzSign, disk>>

-----------------------------------------------------------------------------
(* Initial state: the schema is created and empty of cases (app.py          *)
(* db.create_all); the accounts are an admin made by init_db.py and three   *)
(* registered accounts whose roles the admin has set.                       *)

Secret == <<"s", "e", "c", "r", "e", "t">>

AdminName == <<"a", "d", "m">>
AdminMail == <<"a", "@", "x", ".", "y">>

Account(username, email, role) == User(username, email, Secret, role)

Accounts ==
    << Account(AdminName, AdminMail, Admin),
       Account(<<"e", "v", "a">>, <<"e", "@", "x", ".", "y">>, Evaluateur),
       Account(<<"i", "n", "v">>, <<"i", "@", "x", ".", "y">>, Invoicing),
       Account(<<"u", "s", "r">>, <<"u", "@", "x", ".", "y">>, PlainUser) >>

StoreOf(accounts) ==
    /\ users = accounts
    /\ files = <<>>
    /\ history = <<>>
    /\ notifications = <<>>
    /\ cocs = <<>>
    /\ attachments = <<>>
    /\ session = None
    /\ last = Outcome("start", 0, "ok", <<>>)
    /\ inflight = <<>>
    /\ disk = {}

InitStore == StoreOf(Accounts)

(* a server whose local zone is UTC *)
Init == InitStore /\ today = 1 /\ utcSkew = FALSE /\ tzSign = 0

(* a server in any zone: ahead of UTC (tzSign = -1), UTC, or behind it *)
InitAnyZone == InitStore /\ today = 1 /\ utcSkew = FALSE /\ tzSign \in {0 - 1, 0, 1}

-----------------------------------------------------------------------------
(* Request inputs *)

N1 == <<"V", "0", "1">>
N2 == <<"V", "0", "2">>
S1 == <<"S", "1">>
L1 == <<"L", "1">>
Blank == <<" ">>

FormBase ==
    [file_number |-> N1, receipt_date |-> DateText(1), importer |-> T("imp"),
     exporter |-> T("exp"), country |-> T("MA"), route |-> RouteA, sor_number |-> <<>>,
     sol_number |-> <<>>, status |-> Pending, recall_date |-> <<>>,
     completion_description |-> <<>>]

FileNumberInputs == {N1, <<" ", "V", "0", "1", " ">>, N2, <<"V", "1">>, <<>>}

RouteInputs ==
    { [route |-> RouteA, sor_number |-> <<>>, sol_number |-> <<>>],
      [route |-> RouteA, sor_number |-> S1, sol_number |-> <<>>],
      [route |-> RouteB, sor_number |-> S1, sol_number |-> <<>>],
      [route |-> RouteB, sor_number |-> <<>>, sol_number |-> L1],
      [route |-> RouteB, sor_number |-> Blank, sol_number |-> <<>>],
      [route |-> RouteC, sor_number |-> <<>>, sol_number |-> L1],
      [route |-> RouteC, sor_number |-> S1, sol_number |-> <<>>],
      [route |-> T("D"), sor_number |-> S1, sol_number |-> L1] }

WithRoute(form, r) ==
    [form EXCEPT !.route = r.route, !.sor_number = r.sor_number, !.sol_number = r.sol_number]

IntakeForms ==
    { [FormBase EXCEPT !.file_number = n] : n \in FileNumberInputs }
    \cup { WithRoute([FormBase EXCEPT !.file_number = n], r) : n \in {N1, N2}, r \in RouteInputs }

EditRouteForms == { WithRoute(FormBase, r) : r \in RouteInputs }

RowBase ==
    [file_number |-> StrCell(N1), receipt_date |-> DateCell(1), importer |-> StrCell(T("imp")),
     exporter |-> StrCell(T("exp")), country |-> StrCell(T("MA")), route |-> StrCell(RouteA),
     sor_number |-> EmptyCell, sol_number |-> EmptyCell]

UploadRows ==
    { [RowBase EXCEPT !.route = StrCell(T("a"))],
      [RowBase EXCEPT !.route = StrCell(RouteB), !.sor_number = StrCell(S1)],
      [RowBase EXCEPT !.route = StrCell(T("b")), !.sor_number = StrCell(Blank),
                      !.sol_number = StrCell(L1)],
      [RowBase EXCEPT !.file_number = StrCell(<<"V", "0", "2", " ">>),
                      !.receipt_date = StrCell(DateText(1)),
                      !.route = StrCell(T("c")), !.sol_number = StrCell(L1)],
      [RowBase EXCEPT !.file_number = StrCell(N2), !.route = StrCell(RouteC)],
      [RowBase EXCEPT !.file_number = StrCell(N2), !.receipt_date = EmptyCell],
      [RowBase EXCEPT !.file_number = EmptyCell] }

AllColumns ==
    <<T("file_number"), T("receipt_date"), T("importer"), T("exporter"), T("country"),
      T("route"), T("sor_number"), T("sol_number")>>

RowSeqs(n) == UNION { [1..k -> UploadRows] : k \in 0..n }

Sheets ==
    { [filename |-> <<"f", ".", "x", "l", "s", "x">>, headers |-> AllColumns, rows |-> rows] :
        rows \in RowSeqs(MaxRows) }
    \cup { [filename |-> <<"f", ".", "c", "s", "v">>, headers |-> AllColumns, rows |-> <<RowBase>>],
           [filename |-> <<"F", ".", "X", "L", "S">>, headers |-> Tail(AllColumns), rows |-> <<RowBase>>] }

-----------------------------------------------------------------------------
(* Intake: case creation, spreadsheet import and the edit form *)

NextIntake ==
    \/ \E u \in DOMAIN users, form \in IntakeForms :
          Cardinality(DOMAIN files) < MaxFiles /\ NewFile(u, form)
    \/ \E u \in DOMAIN users, sheet \in Sheets :
          Cardinality(DOMAIN files) + Len(sheet.rows) <= MaxFiles /\ UploadExcel(u, sheet)
    \/ \E u \in DOMAIN users, id \in DOMAIN files, form \in EditRouteForms :
          EditFile(u, id, form)

SpecIntake == Init /\ [][NextIntake]_vars

-----------------------------------------------------------------------------
(* Inputs of the workflow handlers *)

CaseRoom == Cardinality(DOMAIN files) < MaxCases

HistoryRoom == Len(history) < MaxHistory

NotificationRoom == Len(notifications) < MaxNotifications

Described == T("pièce manquante")

StatusInputs == valid_statuses \cup {T("archived")}

StatusForm(n, st) == [FormBase EXCEPT !.file_number = n, !.status = st]

StatusForms ==
    { StatusForm(N1, st) : st \in StatusInputs } \cup { StatusForm(N2, Pending) }

EditStatusForms ==
    { [FormBase EXCEPT !.status = st, !.completion_description = Described] :
        st \in StatusInputs }
    \cup { [FormBase EXCEPT !.status = ToComplete, !.completion_description = Blank] }

OneRowSheets ==
    { [filename |-> <<"f", ".", "x", "l", "s", "x">>, headers |-> AllColumns,
       rows |-> <<[RowBase EXCEPT !.file_number = n]>>] : n \in {StrCell(N1), StrCell(N2)} }

EvaluationForm(decision, montant_facture) ==
    [decision |-> decision, montant_facture |-> montant_facture]

EvaluationForms ==
    { EvaluationForm(Soumis, m) : m \in {T("100"), <<" ", "0">>, T("-5"), T("cent"), <<>>} }
    \cup { EvaluationForm(NonSoumis, <<>>), EvaluationForm(<<" ", "dispense">>, T("100")),
           EvaluationForm(T("autre"), T("100")), EvaluationForm(<<>>, <<>>) }

M1 == <<"m", "a", "r", "0", "0", "1">>
P1 == <<" ", "P", "f", "1", " ">>
Proof == <<"r", ".", "P", "D", "F">>

InvoiceForm(mar_number, proforma_number, payment_justification) ==
    [mar_number |-> mar_number, proforma_number |-> proforma_number,
     payment_justification |-> payment_justification]

InvoiceForms ==
    { InvoiceForm(M1, P1, Proof), InvoiceForm(<<" ", " ", "m">>, P1, Proof),
      InvoiceForm(M1, <<"p", " ">>, Proof), InvoiceForm(M1, P1, <<"r", ".", "e", "x", "e">>),
      InvoiceForm(M1, P1, <<"p", "d", "f">>), InvoiceForm(<<>>, P1, <<>>) }

BatchCounts == {0, 1, MaxCases + 1, MaxBatch + 1}

-----------------------------------------------------------------------------
(* Evaluation: cases arrive by import or by the create form, are assigned    *)
(* in batches and evaluated                                                   *)

NextEvaluate ==
    \/ \E u \in DOMAIN users, form \in {StatusForm(N1, Pending), StatusForm(N2, Finalized)} :
          CaseRoom /\ NewFile(u, form)
    \/ \E u \in DOMAIN users, sheet \in OneRowSheets :
          CaseRoom /\ UploadExcel(u, sheet)
    \/ \E u \in DOMAIN users, count \in BatchCounts : BatchAssignFiles(u, count)
    \/ \E u \in DOMAIN users, id \in DOMAIN files :
          HistoryRoom /\ StartEvaluation(u, id)
    \/ \E u \in DOMAIN users, id \in DOMAIN files, form \in EvaluationForms :
          HistoryRoom /\ NotificationRoom /\ EvaluateFile(u, id, form)

SpecEvaluate == Init /\ [][NextEvaluate]_vars

-----------------------------------------------------------------------------
(* Invoicing: cases reach `ready to invoice` or `payed` through the create   *)
(* and edit forms, are invoiced, and unowned payed cases are claimed         *)

InvoiceStatusForms ==
    { [FormBase EXCEPT !.status = st] : st \in {ReadyToInvoice, Payed} }

NextInvoice ==
    \/ \E u \in DOMAIN users, form \in {StatusForm(N1, ReadyToInvoice), StatusForm(N2, Payed)} :
          CaseRoom /\ NewFile(u, form)
    \/ \E u \in DOMAIN users, sheet \in OneRowSheets :
          CaseRoom /\ UploadExcel(u, sheet)
    \/ \E u \in DOMAIN users, id \in DOMAIN files, form \in InvoiceStatusForms :
          HistoryRoom /\ NotificationRoom /\ EditFile(u, id, form)
    \/ \E u \in DOMAIN users, id \in DOMAIN files, form \in InvoiceForms :
          NotificationRoom /\ ProcessInvoice(u, id, form)
    \/ \E u \in DOMAIN users, id \in DOMAIN files :
          HistoryRoom /\ SelfAssignFile(u, id)

SpecInvoice == Init /\ [][NextInvoice]_vars

-----------------------------------------------------------------------------
(* Workflow: every handler that creates a case or changes its status *)

Next ==
    \/ \E u \in DOMAIN users, form \in StatusForms : CaseRoom /\ NewFile(u, form)
    \/ \E u \in DOMAIN users, sheet \in OneRowSheets : CaseRoom /\ UploadExcel(u, sheet)
    \/ \E u \in DOMAIN users, id \in DOMAIN files, form \in EditStatusForms :
          HistoryRoom /\ NotificationRoom /\ EditFile(u, id, form)
    \/ \E u \in DOMAIN users, id \in DOMAIN files, d \in {Blank, Described} :
          HistoryRoom /\ SetCompletion(u, id, d)
    \/ \E u \in DOMAIN users, id \in DOMAIN files :
          HistoryRoom /\ SelfAssignFile(u, id)
    \/ \E u \in DOMAIN users, count \in BatchCounts : BatchAssignFiles(u, count)
    \/ \E u \in DOMAIN users, id \in DOMAIN files :
          HistoryRoom /\ StartEvaluation(u, id)
    \/ \E u \in DOMAIN users, id \in DOMAIN files, form \in EvaluationForms :
          HistoryRoom /\ NotificationRoom /\ EvaluateFile(u, id, form)
    \/ \E u \in DOMAIN users, id \in DOMAIN files, form \in InvoiceForms :
          NotificationRoom /\ ProcessInvoice(u, id, form)

Spec == Init /\ [][Next]_vars

-----------------------------------------------------------------------------
(* Recalls: cases with a recall date, the passing of time, the scheduled    *)
(* scan and the admin's manual trigger, on a server in any zone             *)

RecallForm(recall_date, st) == [FormBase EXCEPT !.recall_date = recall_date, !.status = st]

RecallForms ==
    { RecallForm(DateText(1), Pending), RecallForm(DateText(MaxDay + 1), Pending),
      RecallForm(DateText(StaleDay), Pending), RecallForm(T("demain"), Pending) }

EditRecallForms == { RecallForm(DateText(1), Pending), RecallForm(DateText(1), Finalized) }

NextRecall ==
    \/ \E u \in DOMAIN users, form \in RecallForms : CaseRoom /\ NewFile(u, form)
    \/ \E u \in DOMAIN users, sheet \in OneRowSheets : CaseRoom /\ UploadExcel(u, sheet)
    \/ \E u \in DOMAIN users, id \in DOMAIN files, form \in EditRecallForms :
          HistoryRoom /\ EditFile(u, id, form)
    \/ NotificationRoom /\ ScheduledRecalls
    \/ \E u \in DOMAIN users : NotificationRoom /\ TriggerRecalls(u)
    \/ Tick

SpecRecall == InitAnyZone /\ [][NextRecall]_vars

-----------------------------------------------------------------------------
(* Records of a case: cases are created (owned) or imported (unowned),       *)
(* edited, completed, given a CoC record and an attachment, viewed and        *)
(* deleted by their owner or by an admin                                      *)

K1 == <<"C", "1">>
K2 == <<"C", "2">>
F1 == <<"F", "1">>

CocForm(coc_date, coc_number, invoice_number) ==
    [coc_date |-> coc_date, coc_number |-> coc_number, invoice_number |-> invoice_number]

CocForms ==
    { CocForm(DateText(1), K1, F1), CocForm(DateText(1), <<" ", "C", "1", " ">>, F1),
      CocForm(DateText(1), K2, F1), CocForm(DateText(1), Blank, F1),
      CocForm(T("hier"), K1, F1), CocForm(DateText(1), K1, <<>>) }

RecordStatusForms ==
    { [FormBase EXCEPT !.status = st] : st \in {ReadyToInvoice, Finalized} }

Uploads ==
    { [filename |-> <<"a", ".", "P", "N", "G">>, size |-> 1],
      [filename |-> <<"a", ".", "e", "x", "e">>, size |-> 1],
      [filename |-> <<"a", ".", "p", "d", "f">>, size |-> MAX_FILE_SIZE + 1],
      [filename |-> <<>>, size |-> 0] }

AttachmentRoom ==
    /\ Len(attachments) < MaxAttachments /\ Cardinality(disk) < MaxAttachments
    /\ LatestSecond < MaxSecond

NextRecords ==
    \/ \E u \in DOMAIN users, form \in {StatusForm(N1, Finalized), StatusForm(N2, Payed)} :
          CaseRoom /\ NewFile(u, form)
    \/ \E u \in DOMAIN users, sheet \in OneRowSheets : CaseRoom /\ UploadExcel(u, sheet)
    \/ \E u \in DOMAIN users, id \in DOMAIN files, form \in RecordStatusForms :
          HistoryRoom /\ NotificationRoom /\ EditFile(u, id, form)
    \/ \E u \in DOMAIN users, id \in DOMAIN files, d \in {Blank, Described} :
          HistoryRoom /\ SetCompletion(u, id, d)
    \/ \E u \in DOMAIN users, id \in DOMAIN files : ViewFile(u, id)
    \/ \E u \in DOMAIN users, id \in DOMAIN files, form \in CocForms : AddCoc(u, id, form)
    \/ \E u \in DOMAIN users, id \in DOMAIN files, upload \in Uploads :
          AttachmentRoom /\ SaveFile(upload, id, u)
    \/ \E u \in DOMAIN users, id \in DOMAIN files : DeleteFile(u, id)
    \/ \E u \in DOMAIN users, id \in DOMAIN files : AdminDeleteFile(u, id)

SpecRecords == Init /\ [][NextRecords]_vars

-----------------------------------------------------------------------------
(* Certificates: cases are created in a final or in another status, receive  *)
(* a CoC record and are deleted                                               *)

(* the ids of deleted cases are not all used again: new ids are bounded *)
IdRoom == NextFileId(files) <= MaxFiles + 1

NextCoc ==
    \/ \E u \in DOMAIN users,
          form \in {StatusForm(N1, Finalized), StatusForm(N2, Finalized), StatusForm(N2, Payed)} :
          Cardinality(DOMAIN files) < MaxFiles /\ IdRoom /\ NewFile(u, form)
    \/ \E u \in DOMAIN users, id \in DOMAIN files, form \in CocForms : AddCoc(u, id, form)
    \/ \E u \in DOMAIN users, id \in DOMAIN files : DeleteFile(u, id)
    \/ \E u \in DOMAIN users, id \in DOMAIN files : AdminDeleteFile(u, id)

SpecCoc == Init /\ [][NextCoc]_vars

-----------------------------------------------------------------------------
(* Route groups: every handler of the five guarded groups, called by every   *)
(* account and by a caller without a session                                  *)

GuardNewForms == {StatusForm(N1, Finalized), StatusForm(N2, ReadyToInvoice)}

GuardEditForms == { [FormBase EXCEPT !.status = st] : st \in {Pending, Payed} }

GuardCocForms == {CocForm(DateText(1), K1, F1)}

GuardEvaluationForms == {EvaluationForm(Soumis, T("100"))}

GuardInvoiceForms == {InvoiceForm(M1, P1, Proof)}

NextGuards ==
    \/ \E u \in Callers, form \in GuardNewForms : CaseRoom /\ NewFile(u, form)
    \/ \E u \in Callers, id \in DOMAIN files, form \in GuardEditForms :
          HistoryRoom /\ EditFile(u, id, form)
    \/ \E u \in Callers, id \in DOMAIN files : ViewFile(u, id)
    \/ \E u \in Callers, id \in DOMAIN files : DeleteFile(u, id)
    \/ \E u \in Callers, id \in DOMAIN files, form \in GuardCocForms : AddCoc(u, id, form)
    \/ \E u \in Callers, id \in DOMAIN files : HistoryRoom /\ SetCompletion(u, id, Described)
    \/ \E u \in Callers, id \in DOMAIN files : HistoryRoom /\ SelfAssignFile(u, id)
    \/ \E u \in Callers, sheet \in OneRowSheets : CaseRoom /\ UploadExcel(u, sheet)
    \/ \E u \in Callers : BatchAssignFiles(u, 1)
    \/ \E u \in Callers, id \in DOMAIN files : HistoryRoom /\ StartEvaluation(u, id)
    \/ \E u \in Callers, id \in DOMAIN files, form \in GuardEvaluationForms :
          HistoryRoom /\ NotificationRoom /\ EvaluateFile(u, id, form)
    \/ \E u \in Callers, id \in DOMAIN files, form \in GuardInvoiceForms :
          NotificationRoom /\ ProcessInvoice(u, id, form)
    \/ \E u \in Callers, id \in DOMAIN files : AdminDeleteFile(u, id)
    \/ \E u \in Callers : NotificationRoom /\ TriggerRecalls(u)

(* the accounts, and one more to which the admin has given role affecteur *)
InitGuards ==
    /\ StoreOf(Append(Accounts, Account(<<"a", "f", "f">>, <<"f", "@", "x", ".", "y">>, Affecteur)))
    /\ today = 1 /\ utcSkew = FALSE /\ tzSign = 0

SpecGuards == InitGuards /\ [][NextGuards]_vars

-----------------------------------------------------------------------------
(* Recall runs that overlap: the start-up job, the 09:00 job and the manual  *)
(* trigger each run check_and_send_recalls in a thread of their own           *)

NextRecallRace ==
    \/ \E u \in DOMAIN users, form \in RecallForms : CaseRoom /\ NewFile(u, form)
    \/ \E p \in Threads : NotificationRoom /\ RecallBegin(p)
    \/ \E p \in Threads : RecallCheck(p)
    \/ \E p \in Threads : RecallCommit(p)
    \/ \E p \in Threads : RecallEnd(p)
    \/ NotificationRoom /\ ScheduledRecalls
    \/ inflight = <<>> /\ Tick

SpecRecallRace == InitAnyZone /\ [][NextRecallRace]_vars

-----------------------------------------------------------------------------
(* Recall runs with failures: owned and unowned cases reach their recall     *)
(* date on a UTC server, and commits of a run may fail                        *)

NextRecallFaults ==
    \/ \E u \in DOMAIN users, n \in {N1, N2} :
          /\ Cardinality(DOMAIN files) < MaxFiles
          /\ NewFile(u, [RecallForm(DateText(1), Pending) EXCEPT !.file_number = n])
    \/ \E u \in DOMAIN users, sheet \in OneRowSheets :
          Cardinality(DOMAIN files) < MaxFiles /\ UploadExcel(u, sheet)
    \/ \E u \in DOMAIN users, id \in DOMAIN files :
          /\ HistoryRoom
          /\ EditFile(u, id, [RecallForm(DateText(1), Pending)
                                 EXCEPT !.file_number = files[id].file_number])
    \/ \E failing \in SUBSET DOMAIN files, aborts \in BOOLEAN :
          NotificationRoom /\ FaultyRecalls(failing, aborts)
    \/ Tick

SpecRecallFaults == Init /\ [][NextRecallFaults]_vars

-----------------------------------------------------------------------------
(* Export: owned and unowned cases, with and without a CoC record, are       *)
(* exported by the admin                                                      *)

NextExport ==
    \/ \E u \in DOMAIN users, form \in {StatusForm(N1, Finalized), StatusForm(N2, Pending)} :
          Cardinality(DOMAIN files) < MaxFiles /\ IdRoom /\ NewFile(u, form)
    \/ \E u \in DOMAIN users, sheet \in OneRowSheets :
          Cardinality(DOMAIN files) < MaxFiles /\ IdRoom /\ UploadExcel(u, sheet)
    \/ \E u \in DOMAIN users, id \in DOMAIN files :
          AddCoc(u, id, CocForm(DateText(1), K1, F1))
    \/ \E u \in DOMAIN users : BatchAssignFiles(u, 1)
    \/ \E u \in DOMAIN users, id \in DOMAIN files : AdminDeleteFile(u, id)
    \/ \E u \in DOMAIN users : ExportFiles(u)

SpecExport == Init /\ [][NextExport]_vars

-----------------------------------------------------------------------------
(* User management: the admins switch accounts on and off and change roles   *)

RoleInputs == {Invoicing, T("root")}

NextUsers ==
    \/ \E u \in Callers, user_id \in DOMAIN users : ToggleUserStatus(u, user_id)
    \/ \E u \in Callers, user_id \in DOMAIN users : ToggleUserRole(u, user_id)
    \/ \E u \in Callers, user_id \in DOMAIN users, role \in RoleInputs :
          SetUserRole(u, user_id, role)

SpecUsers == Init /\ [][NextUsers]_vars

-----------------------------------------------------------------------------
(* Workflow of an imported case: the role-specific actions only, from the    *)
(* import to self-assignment                                                  *)

NextWorkflow ==
    \/ \E u \in DOMAIN users, sheet \in OneRowSheets : CaseRoom /\ UploadExcel(u, sheet)
    \/ \E u \in DOMAIN users, count \in {1, MaxBatch} : BatchAssignFiles(u, count)
    \/ \E u \in DOMAIN users, id \in DOMAIN files : HistoryRoom /\ StartEvaluation(u, id)
    \/ \E u \in DOMAIN users, id \in DOMAIN files, form \in EvaluationForms :
          HistoryRoom /\ NotificationRoom /\ EvaluateFile(u, id, form)
    \/ \E u \in DOMAIN users, id \in DOMAIN files, form \in InvoiceForms :
          NotificationRoom /\ ProcessInvoice(u, id, form)
    \/ \E u \in DOMAIN users, id \in DOMAIN files : HistoryRoom /\ SelfAssignFile(u, id)

SpecWorkflow == Init /\ [][NextWorkflow]_vars

-----------------------------------------------------------------------------
(* Status history: every case handler, and the two deletions                 *)

NextHistory ==
    \/ Next
    \/ \E u \in DOMAIN users, id \in DOMAIN files : DeleteFile(u, id)
    \/ \E u \in DOMAIN users, id \in DOMAIN files : AdminDeleteFile(u, id)

SpecHistory == Init /\ [][NextHistory]_vars

-----------------------------------------------------------------------------
(* Case handlers whose second commit may fail *)

FaultEditForm(id, st) == [FormBase EXCEPT !.file_number = files[id].file_number, !.status = st]

NextCommitFaults ==
    \/ \E u \in DOMAIN users : CaseRoom /\ NewFile(u, StatusForm(N1, Pending))
    \/ \E u \in DOMAIN users, sheet \in OneRowSheets : CaseRoom /\ UploadExcel(u, sheet)
    \/ \E u \in DOMAIN users : BatchAssignFiles(u, 1)
    \/ \E u \in DOMAIN users, id \in DOMAIN files, form \in EvaluationForms :
          HistoryRoom /\ NotificationRoom /\ EvaluateFile(u, id, form)
    \/ \E u \in DOMAIN users, id \in DOMAIN files, form \in EvaluationForms :
          EvaluateFileSecondCommitFails(u, id, form)
    \/ \E u \in DOMAIN users, id \in DOMAIN files : HistoryRoom /\ SelfAssignFile(u, id)
    \/ \E u \in DOMAIN users, id \in DOMAIN files : SelfAssignFileSecondCommitFails(u, id)
    \/ \E u \in DOMAIN users, id \in DOMAIN files, st \in {Pending, Payed} :
          HistoryRoom /\ NotificationRoom /\ EditFile(u, id, FaultEditForm(id, st))
    \/ \E u \in DOMAIN users, id \in DOMAIN files, st \in {Pending, Payed} :
          EditFileSecondCommitFails(u, id, FaultEditForm(id, st))

SpecCommitFaults == Init /\ [][NextCommitFaults]_vars

-----------------------------------------------------------------------------
(* Routes of imported rows: one-row sheets whose route, SOR and SOL cells    *)
(* take every shape, imported next to cases that exist                        *)

RouteCells == {StrCell(T("a")), StrCell(RouteB), StrCell(T("c")), StrCell(T("d"))}

RouteRows ==
    { [RowBase EXCEPT !.file_number = StrCell(n), !.route = r, !.sor_number = sor,
                      !.sol_number = sol] :
        n \in {N1, N2}, r \in RouteCells,
        sor \in {EmptyCell, StrCell(S1), StrCell(Blank)}, sol \in {EmptyCell, StrCell(L1)} }

RouteSheets ==
    { [filename |-> <<"f", ".", "x", "l", "s", "x">>, headers |-> AllColumns,
       rows |-> <<row>>] : row \in RouteRows }

NextRoutes ==
    \E u \in DOMAIN users, sheet \in RouteSheets :
        Cardinality(DOMAIN files) < MaxFiles /\ UploadExcel(u, sheet)

SpecRoutes == Init /\ [][NextRoutes]_vars

-----------------------------------------------------------------------------
(* Stage times: a case goes back and forth between two statuses over         *)
(* several days, every change at a time of its own, and the KPI page is read  *)

NextKpi ==
    \/ \E u \in DOMAIN users : CaseRoom /\ NewFile(u, StatusForm(N1, Pending))
    \/ \E u \in DOMAIN users, id \in DOMAIN files, st \in {Pending, Payed} :
          /\ Len(history) < MaxTransitions
          /\ \A i \in 1..Len(history) : history[i].changed_at < utcnow
          /\ EditFile(u, id, FaultEditForm(id, st))
    \/ today < MaxTransitions /\ Elapse
    \/ \E u \in Callers : Temporal(u)

SpecKpi == Init /\ [][NextKpi]_vars

-----------------------------------------------------------------------------
(* Uploads: attachments are saved and deleted, and some of the calls fail    *)
(* part-way                                                                   *)

UploadRoom ==
    /\ Len(attachments) < MaxUploads /\ Cardinality(disk) < MaxUploads
    /\ LatestSecond < MaxSecond

UploadInputs ==
    { [filename |-> <<"a", ".", "p", "d", "f">>, size |-> 1],
      [filename |-> <<"a", " ", "b", ".", "p", "d", "f">>, size |-> 1],
      [filename |-> <<"a", ".", "e", "x", "e">>, size |-> 1] }

NextUploads ==
    \/ \E u \in DOMAIN users : CaseRoom /\ NewFile(u, StatusForm(N1, Pending))
    \/ \E u \in DOMAIN users, id \in DOMAIN files, upload \in UploadInputs :
          UploadRoom /\ SaveFile(upload, id, u)
    \/ \E u \in DOMAIN users, id \in DOMAIN files, upload \in UploadInputs :
          LatestSecond < MaxSecond /\ SaveFileFails(upload, id, u)
    \/ \E attachment_id \in 1..MaxUploads : delete_file(attachment_id)
    \/ \E attachment_id \in 1..MaxUploads, removed \in BOOLEAN :
          DeleteFileFails(attachment_id, removed)

SpecUploads == Init /\ [][NextUploads]_vars

-----------------------------------------------------------------------------
(* Claims that overlap: imported cases wait without owner, an admin sets one *)
(* to `payed`, and the requests of several users to take a case interleave    *)

NextClaimRace ==
    \/ \E u \in DOMAIN users, sheet \in OneRowSheets :
          Cardinality(DOMAIN files) < MaxFiles /\ UploadExcel(u, sheet)
    \/ \E u \in DOMAIN users, id \in DOMAIN files :
          HistoryRoom /\ NotificationRoom /\ EditFile(u, id, FaultEditForm(id, Payed))
    \/ \E p \in Threads, u \in DOMAIN users, id \in DOMAIN files : SelfAssignLoad(p, u, id)
    \/ \E p \in Threads : SelfAssignWrite(p)
    \/ \E p \in Threads : SelfAssignRecord(p)
    \/ \E p \in Threads, u \in DOMAIN users, count \in {1, MaxFiles} :
          BatchAssignLoad(p, u, count)
    \/ \E p \in Threads : BatchAssignWrite(p)

SpecClaimRace == Init /\ [][NextClaimRace]_vars

-----------------------------------------------------------------------------
(* Certified cases: cases are created Finalized, receive a CoC record and    *)
(* then meet the edit form, the completion request and the workflow actions  *)

NextCertified ==
    \/ \E u \in DOMAIN users, form \in {StatusForm(N1, Finalized), StatusForm(N2, Pending)} :
          CaseRoom /\ NewFile(u, form)
    \/ \E u \in DOMAIN users, id \in DOMAIN files : AddCoc(u, id, CocForm(DateText(1), K1, F1))
    \/ \E u \in DOMAIN users, id \in DOMAIN files, form \in RecordStatusForms :
          HistoryRoom /\ NotificationRoom /\ EditFile(u, id, form)
    \/ \E u \in DOMAIN users, id \in DOMAIN files, d \in {Blank, Described} :
          HistoryRoom /\ SetCompletion(u, id, d)
    \/ \E u \in DOMAIN users, id \in DOMAIN files :
          HistoryRoom /\ SelfAssignFile(u, id)
    \/ \E u \in DOMAIN users : BatchAssignFiles(u, 1)
    \/ \E u \in DOMAIN users, id \in DOMAIN files :
          HistoryRoom /\ StartEvaluation(u, id)
    \/ \E u \in DOMAIN users, id \in DOMAIN files, form \in EvaluationForms :
          HistoryRoom /\ NotificationRoom /\ EvaluateFile(u, id, form)
    \/ \E u \in DOMAIN users, id \in DOMAIN files, form \in InvoiceForms :
          NotificationRoom /\ ProcessInvoice(u, id, form)

SpecCertified == Init /\ [][NextCertified]_vars

-----------------------------------------------------------------------------
(* Admins at work together: the requests that change accounts overlap, under  *)
(* either version of the session check                                         *)

(* the accounts the requests are made by and on: the admin and one other *)
RaceAccounts == {1, 2}

NextAccountRace ==
    \/ \E p \in Threads, u \in RaceAccounts, user_id \in RaceAccounts, strict \in BOOLEAN,
          op \in {"toggle_user_status", "toggle_user_role"} :
          AccountLoad(p, u, op, user_id, PlainUser, strict)
    \/ \E p \in Threads, u \in RaceAccounts, user_id \in RaceAccounts, strict \in BOOLEAN,
          role \in {Invoicing, Admin} :
          AccountLoad(p, u, "set_user_role", user_id, role, strict)
    \/ \E p \in Threads : AccountCommit(p)

SpecAccountRace == Init /\ [][NextAccountRace]_vars

-----------------------------------------------------------------------------
(* Batch assignment: several unowned cases wait for evaluation, next to      *)
(* owned ones, closed ones and the gaps left by deleted ones                  *)

Lot == T("lot")

TwoRowSheet ==
    [filename |-> <<"f", ".", "x", "l", "s", "x">>, headers |-> AllColumns,
     rows |-> <<[RowBase EXCEPT !.file_number = StrCell(N1), !.exporter = StrCell(Lot)],
                [RowBase EXCEPT !.file_number = StrCell(N2), !.exporter = StrCell(Lot)]>>]

BatchSizes == {0, 1, 2, MaxBatch, MaxBatch + 1}

NextBatch ==
    \/ \E u \in DOMAIN users, sheet \in OneRowSheets \cup {TwoRowSheet} :
          /\ Cardinality(DOMAIN files) + Len(sheet.rows) <= MaxFiles
          /\ IdRoom
          /\ UploadExcel(u, sheet)
    \/ \E u \in DOMAIN users :
          Cardinality(DOMAIN files) < MaxFiles /\ IdRoom /\ NewFile(u, StatusForm(N2, Pending))
    \/ \E u \in DOMAIN users, id \in DOMAIN files :
          HistoryRoom /\ EditFile(u, id, StatusForm(files[id].file_number, Finalized))
    \/ \E u \in DOMAIN users, id \in DOMAIN files : AdminDeleteFile(u, id)
    \/ \E u \in DOMAIN users, count \in BatchSizes : BatchAssignFiles(u, count)

SpecBatch == Init /\ [][NextBatch]_vars

-----------------------------------------------------------------------------
(* Accounts: registration, the two admin scripts, the admin's activation     *)
(* switch, and the login and logout of one browser                            *)

Bob == <<"b", "o", "b">>
BobMail == <<"b", "@", "x", ".", "y">>
Wrong == <<"w", "r", "o", "n", "g", "!">>

LoginForm(username, password) == [username |-> username, password |-> password]

LoginForms ==
    { LoginForm(n, pw) : n \in {<<" ", "u", "s", "r", " ">>, Bob, AdminName, <<>>},
                         pw \in {Secret, Wrong} }
    \cup { LoginForm(AdminName, <<>>) }

RegisterForm(username, email, password, confirm_password) ==
    [username |-> username, email |-> email, password |-> password,
     confirm_password |-> confirm_password]

RegisterForms ==
    { RegisterForm(Bob, BobMail, Secret, Secret),
      RegisterForm(<<" ", "b", "o", "b">>, <<"B", "@", "x", ".", "Y", " ">>, Secret, Secret),
      RegisterForm(Bob, <<"U", "@", "x", ".", "y">>, Secret, Secret),
      RegisterForm(<<"u", "s", "r">>, BobMail, Secret, Secret),
      RegisterForm(Bob, <<"b", "a", "d", ".", "y">>, Secret, Secret),
      RegisterForm(<<"b", "!", "b">>, BobMail, Secret, Secret),
      RegisterForm(<<"b", "o">>, BobMail, Secret, Secret),
      RegisterForm(Bob, BobMail, Secret, Wrong),
      RegisterForm(Bob, BobMail, <<"s", "e", "c">>, <<"s", "e", "c">>) }

Root == <<"r", "o", "o", "t">>

ScriptEmails == {BobMail, <<"B", "@", "x", ".", "y">>, AdminMail}

OperatorInput(response, username, email, password, password_confirm) ==
    [response |-> response, username |-> username, email |-> email, password |-> password,
     password_confirm |-> password_confirm]

OperatorInputs ==
    { OperatorInput(<<"Y">>, Root, e, Secret, Secret) : e \in ScriptEmails }
    \cup { OperatorInput(<<"n">>, Root, BobMail, Secret, Secret),
           OperatorInput(<<"y">>, AdminName, BobMail, Secret, Secret),
           OperatorInput(<<"y">>, Root, BobMail, Secret, Wrong),
           OperatorInput(<<"y">>, Root, Blank, Secret, Secret) }

AccountRoom == Len(users) < MaxAccounts

NextAuth ==
    \/ \E form \in RegisterForms, strict \in BOOLEAN : AccountRoom /\ Register(form, strict)
    \/ \E username \in {Root, AdminName}, email \in ScriptEmails :
          AccountRoom /\ CreateAdmin(username, email, Secret)
    \/ \E input \in OperatorInputs : AccountRoom /\ InitDatabase(input)
    \/ \E u \in DOMAIN users, user_id \in DOMAIN users : ToggleUserStatus(u, user_id)
    \/ \E form \in LoginForms, strict \in BOOLEAN : Login(form, strict)
    \/ \E strict \in BOOLEAN : Logout(strict)

SpecAuth == Init /\ [][NextAuth]_vars

-----------------------------------------------------------------------------
(* Properties.  A step of a handler is recognised by the handler's action    *)
(* holding between the two states for the caller, case and form quantified.  *)

(* C1: a successful evaluate_file on a case in status `en attente            *)
(* d'évaluation` owned by the calling evaluator sets, with decision soumis    *)
(* and a non-negative amount a, the status to `ready to invoice`,             *)
(* evaluation_reason to soumis and montant_facture to a; with decision        *)
(* non_soumis or dispense it sets the status to Finalized and                 *)
(* montant_facture to null.                                                   *)
C1_EvaluateFile ==
    [][\A u \in DOMAIN users, id \in DOMAIN files, form \in EvaluationForms :
          (/\ last'.op = "evaluate_file" /\ last'.outcome = "ok"
           /\ evaluator_required(u)
           /\ files[id].status = Pending /\ files[id].user_id = Some(u)
           /\ EvaluateFile(u, id, form))
          => LET decision == Strip(form.decision)
                 a == ParseAmount(Strip(form.montant_facture))
             IN  /\ decision \in {Soumis, NonSoumis, Dispense}
                 /\ decision = Soumis =>
                       /\ a # None /\ a[1] >= 0
                       /\ files'[id].status = ReadyToInvoice
                       /\ files'[id].evaluation_reason = Some(Soumis)
                       /\ files'[id].montant_facture = a
                 /\ decision \in {NonSoumis, Dispense} =>
                       /\ files'[id].status = Finalized
                       /\ files'[id].montant_facture = None
       ]_vars

C1_Witness ==
    /\ last.op = "evaluate_file" /\ last.outcome = "ok"
    /\ files[last.file].status = ReadyToInvoice
    /\ files[last.file].evaluation_reason = Some(Soumis)
    /\ files[last.file].montant_facture = Some(100)

(* C2: for a caller the /user guard admits, self_assign_file on a case whose *)
(* status is not payed, or whose owner is set, is rejected and changes        *)
(* nothing; on an unowned payed case it sets the owner to the caller, the     *)
(* status to `en cours de traitement`, and appends exactly one status-history *)
(* entry, from payed to `en cours de traitement`.                              *)
C2_SelfAssignFile ==
    [][\A u \in DOMAIN users, id \in DOMAIN files :
          (/\ last'.op = "self_assign_file"
           /\ user_required(u)
           /\ SelfAssignFile(u, id))
          => IF files[id].status # Payed \/ files[id].user_id # None
             THEN /\ last'.outcome = "rejected"
                  /\ UNCHANGED store
             ELSE /\ files'[id].user_id = Some(u)
                  /\ files'[id].status = InProcessing
                  /\ Len(history') = Len(history) + 1
                  /\ SubSeq(history', 1, Len(history)) = history
                  /\ history'[Len(history')].file_id = id
                  /\ history'[Len(history')].old_status = Some(Payed)
                  /\ history'[Len(history')].new_status = InProcessing
       ]_vars

C2_Witness ==
    /\ last.op = "self_assign_file" /\ last.outcome = "ok"
    /\ files[last.file].status = InProcessing
    /\ files[last.file].user_id # None
    /\ history # <<>> /\ history[Len(history)].old_status = Some(Payed)

(* the requests of C3: both numbers of 3 to 100 characters once trimmed and  *)
(* a proof file of an allowed type                                            *)
AcceptableInvoiceForms ==
    { form \in InvoiceForms :
        /\ Len(Strip(form.mar_number)) \in MinNumberLen..MaxNumberLen
        /\ Len(Strip(form.proforma_number)) \in MinNumberLen..MaxNumberLen
        /\ PaymentFileValid(form.payment_justification) }

(* C3: for a caller the /invoice guard admits, process_invoice with a MAR    *)
(* number and a ProForma number of 3 to 100 characters once trimmed and an    *)
(* allowed proof file, on a case in status `ready to invoice`, sets the       *)
(* status to payed, stores both numbers trimmed and upper-cased, and sets     *)
(* invoiced_at and invoiced_by (the caller), after which is_invoiced() is     *)
(* true; on a case whose status is not `ready to invoice` it is rejected and  *)
(* changes nothing.                                                            *)
C3_ProcessInvoice ==
    [][last'.op = "process_invoice" =>
          LET id == last'.file
          IN  /\ \A u \in DOMAIN users, form \in AcceptableInvoiceForms :
                    (/\ files[id].status = ReadyToInvoice
                     /\ invoicing_required(u)
                     /\ ProcessInvoice(u, id, form))
                    => /\ files'[id].status = Payed
                       /\ files'[id].mar_number = Some(Upper(Strip(form.mar_number)))
                       /\ files'[id].proforma_number = Some(Upper(Strip(form.proforma_number)))
                       /\ files'[id].invoiced_at # None
                       /\ files'[id].invoiced_by = Some(u)
                       /\ is_invoiced(files'[id])
              /\ (files[id].status # ReadyToInvoice /\ last'.outcome # "forbidden")
                    => /\ last'.outcome = "rejected"
                       /\ UNCHANGED store
       ]_vars

C3_Witness ==
    /\ last.op = "process_invoice" /\ last.outcome = "ok"
    /\ files[last.file].status = Payed
    /\ files[last.file].mar_number = Some(<<"M", "A", "R", "0", "0", "1">>)
    /\ files[last.file].proforma_number = Some(<<"P", "F", "1">>)
    /\ is_invoiced(files[last.file])

(* C4: of two runs of check_and_send_recalls, one directly after the other   *)
(* on the same day, the second finds the recall notifications of the first    *)
(* and skips the case: it adds no notification.                                *)
C4_SecondRunSkips ==
    [][(/\ last.op \in {"check_and_send_recalls", "trigger_recalls"} /\ last.outcome = "ok"
        /\ last'.op \in {"check_and_send_recalls", "trigger_recalls"} /\ last'.outcome = "ok")
       => notifications' = notifications]_vars

(* C5: no two cases have the same case number, and the cases that exist keep *)
(* theirs, so that a creation or an import row whose case number exists       *)
(* creates no case: a create request for a number that exists never succeeds, *)
(* and a request that does not succeed stores nothing.                         *)
C5_UniqueFileNumbers ==
    [][/\ \A a, b \in DOMAIN files' :
             a # b => files'[a].file_number # files'[b].file_number
       /\ \A k \in DOMAIN files :
             k \in DOMAIN files' /\ files'[k].file_number = files[k].file_number
       /\ (last'.op \in {"new_file", "upload_excel"} /\ last'.outcome # "ok")
             => files' = files
       /\ (last'.op = "new_file" /\ last'.outcome = "ok")
             => \A u \in DOMAIN users, form \in IntakeForms :
                   FileNumberExists(files, Strip(form.file_number)) => ~NewFile(u, form)
       ]_vars

(* a sheet whose two rows carry the same case number has created one case *)
C5_Witness ==
    /\ last.op = "upload_excel" /\ last.outcome = "ok"
    /\ last.info.success_count = 1
    /\ last.info.errors = <<"existe déjà">>
    /\ Cardinality(DOMAIN files) = 1

RouteRuleBroken(form) ==
    \/ Strip(form.route) = RouteB /\ Strip(form.sor_number) = <<>>
    \/ Strip(form.route) = RouteC /\ Strip(form.sol_number) = <<>>

BrokenIntakeForms == { form \in IntakeForms : RouteRuleBroken(form) }

BrokenEditForms == { form \in EditRouteForms : RouteRuleBroken(form) }

(* C6: every case with route B has a non-empty SOR number and every case     *)
(* with route C a non-empty SOL number; a create or an edit that would break  *)
(* this is rejected and stores nothing: such a request never succeeds, and a  *)
(* request that does not succeed leaves the store as it was.                   *)
C6_RouteNumbers ==
    [][/\ \A k \in DOMAIN files' :
             /\ files'[k].route = RouteB => Truthy(files'[k].sor_number)
             /\ files'[k].route = RouteC => Truthy(files'[k].sol_number)
       /\ (last'.op \in {"new_file", "edit_file", "upload_excel"} /\ last'.outcome # "ok")
             => UNCHANGED store
       /\ (last'.op = "new_file" /\ last'.outcome = "ok")
             => \A u \in DOMAIN users, form \in BrokenIntakeForms : ~NewFile(u, form)
       /\ (last'.op = "edit_file" /\ last'.outcome = "ok")
             => \A u \in DOMAIN users, id \in DOMAIN files, form \in BrokenEditForms :
                   ~EditFile(u, id, form)
       ]_vars

(* a route B case with its SOR number is stored and a route C edit without   *)
(* a SOL number has been refused                                              *)
C6_Witness ==
    /\ last.op = "edit_file" /\ last.outcome = "invalid"
    /\ files[last.file].route = RouteB
    /\ files[last.file].sor_number = Some(S1)

(* C7: the status of every case is one of the eight workflow values *)
C7_StatusInWorkflow ==
    \A k \in DOMAIN files :
        files[k].status \in
            { <<"en attente d'évaluation">>, <<"en cours d'évaluation">>,
              <<"ready to invoice">>, <<"payed">>, <<"en cours de traitement">>,
              <<"à compléter">>, <<"transfert à l'inspection">>, <<"Finalized">> }

(* the edit form has moved a case to `transfert à l'inspection` and has then  *)
(* refused a status outside the eight                                          *)
C7_Witness ==
    /\ last.op = "edit_file" /\ last.outcome = "invalid"
    /\ files[last.file].status = Inspection

C9_CompletionRecorded ==
    \A k \in DOMAIN files :
        files[k].status = ToComplete =>
            /\ Truthy(files[k].completion_description)
            /\ files[k].completion_date # None

(* C10 as stated: no step changes the status of a Finalized case *)
C10_FinalizedTerminal ==
    [][\A k \in DOMAIN files :
          files[k].status = Finalized => files'[k].status = Finalized]_vars

(* C10 amended: start_evaluation, evaluate_file, process_invoice,            *)
(* batch_assign_files and self_assign_file never change the status of a       *)
(* Finalized case.                                                             *)
C10_FinalizedKeptByWorkflow ==
    [][\A k \in DOMAIN files :
          (/\ files[k].status = Finalized
           /\ last'.op \in {"start_evaluation", "evaluate_file", "process_invoice",
                            "batch_assign_files", "self_assign_file"})
          => files'[k].status = Finalized]_vars

(* process_invoice has been refused on a Finalized case *)
C10_Witness ==
    /\ last.op = "process_invoice" /\ last.outcome = "rejected"
    /\ files[last.file].status = Finalized

(* C11: a CoC record is created only by add_coc, on a case whose status is   *)
(* Finalized, that has no CoC record, with a CoC number no record carries;    *)
(* so after every step a case has at most one CoC record and the CoC numbers  *)
(* are pairwise distinct; and no step changes a record: the records either    *)
(* stay, or gain the new one at the end, or lose those of a deleted case.     *)
C11_AddCoc ==
    [][/\ Len(cocs') > Len(cocs) =>
             /\ last'.op = "add_coc" /\ last'.outcome = "ok"
             /\ files[last'.file].status = Finalized
             /\ ~HasCoc(cocs, last'.file)
             /\ cocs' = Append(cocs, cocs'[Len(cocs')])
             /\ cocs'[Len(cocs')].file_id = last'.file
             /\ \A i \in 1..Len(cocs) : cocs[i].coc_number # cocs'[Len(cocs')].coc_number
       /\ Len(cocs') <= Len(cocs) =>
             \/ cocs' = cocs
             \/ /\ last'.op \in {"delete_file", "admin_delete_file"}
                /\ cocs' = SelectSeq(cocs, LAMBDA c : c.file_id # last'.file)
       /\ \A i, j \in 1..Len(cocs') :
             i # j => /\ cocs'[i].file_id # cocs'[j].file_id
                      /\ cocs'[i].coc_number # cocs'[j].coc_number
       ]_vars

(* a second case, Finalized and without a CoC record, has been refused the   *)
(* CoC number of the first                                                    *)
C11_Witness ==
    /\ last.op = "add_coc" /\ last.outcome = "rejected"
    /\ last.info = "coc_number exists"
    /\ files[last.file].status = Finalized
    /\ ~HasCoc(cocs, last.file)
    /\ Len(cocs) = 1

(* C12: every CoC record, every notification that names a case, every       *)
(* status-history entry and every attachment references a case that exists:   *)
(* the rows of a deleted case are deleted with it.                             *)
C12_NoOrphans ==
    /\ \A i \in 1..Len(cocs) : cocs[i].file_id \in DOMAIN files
    /\ \A i \in 1..Len(notifications) :
          notifications[i].file_id # None => notifications[i].file_id[1] \in DOMAIN files
    /\ \A i \in 1..Len(history) : history[i].file_id \in DOMAIN files
    /\ \A i \in 1..Len(attachments) : attachments[i].file_id \in DOMAIN files

(* a case has been deleted that had a CoC record, notifications, history      *)
(* entries and an attachment                                                   *)
C12_Witness ==
    /\ last.op \in {"delete_file", "admin_delete_file"} /\ last.outcome = "ok"
    /\ last.info.coc_details = 1 /\ last.info.notifications > 0
    /\ last.info.status_history > 0 /\ last.info.attachments = 1
    /\ last.file \notin DOMAIN files

(* the edit requests whose target status is `à compléter` *)
CompletionEditForms == { form \in EditStatusForms : Strip(form.status) = ToComplete }

(* C13: edit_file with target status `à compléter` and a completion         *)
(* description that is empty once trimmed never succeeds and leaves the case, *)
(* the history and the notifications as they were; with a non-empty           *)
(* description a successful edit sets the status to `à compléter`, stores the *)
(* trimmed description and sets completion_date.                               *)
C13_EditToComplete ==
    [][last'.op = "edit_file" =>
          \A u \in DOMAIN users, form \in CompletionEditForms :
              EditFile(u, last'.file, form) =>
                  IF Strip(form.completion_description) = <<>>
                  THEN /\ last'.outcome # "ok"
                       /\ UNCHANGED store
                  ELSE last'.outcome = "ok" =>
                          /\ files'[last'.file].status = ToComplete
                          /\ files'[last'.file].completion_description =
                                Some(Strip(form.completion_description))
                          /\ files'[last'.file].completion_date = Some(utcnow)
       ]_vars

(* an edit to `à compléter` with a blank description has been refused on a    *)
(* case in another status                                                      *)
C13_Witness ==
    /\ last.op = "edit_file" /\ last.outcome = "rejected" /\ last.info = "description"
    /\ files[last.file].status # ToComplete
    /\ files[last.file].completion_date = None

(* C14: evaluate_file changes a case only when its status is `en attente    *)
(* d'évaluation` and its owner is the caller; for any other status, an        *)
(* unowned case or a case owned by someone else, whoever calls (an admin      *)
(* included), the request is refused and the cases, the status history and    *)
(* the notifications are unchanged: a refused request changes none of them,   *)
(* and a request that is not refused comes from the owner of a pending case.  *)
C14_EvaluateOwnPending ==
    [][last'.op = "evaluate_file" =>
          IF last'.outcome \in {"rejected", "forbidden"}
          THEN UNCHANGED <<files, history, notifications>>
          ELSE \A u \in DOMAIN users, form \in EvaluationForms :
                  EvaluateFile(u, last'.file, form)
                  => /\ files[last'.file].status = Pending
                     /\ files[last'.file].user_id = Some(u)
       ]_vars

(* a pending case that has an owner has been refused to a caller the          *)
(* /evaluator guard admits and who is not that owner                           *)
C14_Witness ==
    /\ last.op = "evaluate_file" /\ last.outcome = "rejected" /\ last.info = "owner"
    /\ files[last.file].status = Pending
    /\ files[last.file].user_id # None
    /\ users[files[last.file].user_id[1]].role = Evaluateur

(* the request for handler op by caller u, over the inputs of the route      *)
(* groups                                                                      *)
Request(op, u) ==
    CASE op = "new_file" -> \E form \in GuardNewForms : NewFile(u, form)
      [] op = "edit_file" ->
            \E id \in DOMAIN files, form \in GuardEditForms : EditFile(u, id, form)
      [] op = "view_file" -> \E id \in DOMAIN files : ViewFile(u, id)
      [] op = "delete_file" -> \E id \in DOMAIN files : DeleteFile(u, id)
      [] op = "add_coc" ->
            \E id \in DOMAIN files, form \in GuardCocForms : AddCoc(u, id, form)
      [] op = "set_completion" -> \E id \in DOMAIN files : SetCompletion(u, id, Described)
      [] op = "self_assign_file" -> \E id \in DOMAIN files : SelfAssignFile(u, id)
      [] op = "upload_excel" -> \E sheet \in OneRowSheets : UploadExcel(u, sheet)
      [] op = "batch_assign_files" -> BatchAssignFiles(u, 1)
      [] op = "start_evaluation" -> \E id \in DOMAIN files : StartEvaluation(u, id)
      [] op = "evaluate_file" ->
            \E id \in DOMAIN files, form \in GuardEvaluationForms : EvaluateFile(u, id, form)
      [] op = "process_invoice" ->
            \E id \in DOMAIN files, form \in GuardInvoiceForms : ProcessInvoice(u, id, form)
      [] op = "admin_delete_file" -> \E id \in DOMAIN files : AdminDeleteFile(u, id)
      [] op = "trigger_recalls" -> TriggerRecalls(u)
      [] OTHER -> FALSE

(* the roles of each route group *)
GroupRoles(op) ==
    CASE op \in {"admin_delete_file", "trigger_recalls"} -> {<<"admin">>}
      [] op \in {"batch_assign_files", "start_evaluation", "evaluate_file"} ->
            {<<"évaluateur">>, <<"admin">>}
      [] op = "process_invoice" -> {<<"invoicing">>, <<"admin">>}
      [] op = "upload_excel" -> {<<"affecteur">>, <<"admin">>}
      [] OTHER -> {<<"user">>, <<"admin">>, <<"affecteur">>, <<"évaluateur">>}

(* C15: a handler of a route group runs only for a caller of the group's      *)
(* roles (/admin: admin; /evaluator: évaluateur, admin; /invoice: invoicing,   *)
(* admin; /affecteur: affecteur, admin; /user: every role but invoicing): a    *)
(* request that the guard has not refused was made by no caller without a      *)
(* session and by no caller of another role, and a refused request changes     *)
(* no stored state.                                                             *)
C15_RouteGuards ==
    [][IF last'.outcome = "forbidden"
       THEN UNCHANGED store
       ELSE \A u \in Callers :
               (u = Anonymous \/ users[u].role \notin GroupRoles(last'.op))
               => ~Request(last'.op, u)
       ]_vars

(* an account that is not an admin has been refused the admin's delete, and   *)
(* the case is still there                                                     *)
C15_Witness ==
    /\ last.op = "admin_delete_file" /\ last.outcome = "forbidden"
    /\ last.file \in DOMAIN files

(* the request for handler op on case id by caller u, over the inputs of the *)
(* records specification                                                       *)
CaseRequest(op, u, id) ==
    CASE op = "view_file" -> ViewFile(u, id)
      [] op = "edit_file" -> \E form \in RecordStatusForms : EditFile(u, id, form)
      [] op = "delete_file" -> DeleteFile(u, id)
      [] op = "add_coc" -> \E form \in CocForms : AddCoc(u, id, form)
      [] op = "set_completion" -> \E d \in {Blank, Described} : SetCompletion(u, id, d)
      [] OTHER -> FALSE

(* C16: view_file, edit_file, delete_file, add_coc and set_completion act on *)
(* a case only for its owner or an admin: a request refused by the owner       *)
(* check (or by the /user guard) leaves users, cases, history, notifications,  *)
(* CoC records and attachments unchanged, and a request that was not refused   *)
(* is the request of no account that is neither the owner nor an admin (for    *)
(* an unowned case: of no account but an admin).                               *)
C16_OwnerOrAdmin ==
    [][last'.op \in {"view_file", "edit_file", "delete_file", "add_coc", "set_completion"} =>
          IF \/ last'.outcome = "forbidden"
             \/ last'.outcome = "rejected" /\ last'.info = "owner"
          THEN UNCHANGED store
          ELSE \A u \in DOMAIN users :
                  (files[last'.file].user_id # Some(u) /\ users[u].role # <<"admin">>)
                  => ~CaseRequest(last'.op, u, last'.file)
       ]_vars

(* the delete of an unowned case has been refused to an account that is not   *)
(* an admin, and the case is still there                                       *)
C16_Witness ==
    /\ last.op = "delete_file" /\ last.outcome = "rejected" /\ last.info = "owner"
    /\ last.file \in DOMAIN files
    /\ files[last.file].user_id = None

(* C17: login establishes a session only when the username exists, the       *)
(* password matches and the account's active flag is true; a login with       *)
(* correct credentials for a deactivated account, sent by a browser that is   *)
(* not logged in, is rejected and establishes no session.                     *)
CredentialsOf(form, k) ==
    /\ k \in DOMAIN users
    /\ users[k].username = Strip(form.username)
    /\ check_password(users[k], form.password)

C17_LoginActiveOnly ==
    [][ last'.op = "login" =>
          \A form \in LoginForms, strict \in BOOLEAN :
             Login(form, strict) =>
               /\ session' # session =>
                     /\ session' # None
                     /\ CredentialsOf(form, session'[1])
                     /\ users[session'[1]].is_active
               /\ \A k \in DOMAIN users :
                     (CredentialsOf(form, k) /\ ~users[k].is_active /\ ~SessionAuthenticated(strict)) =>
                        /\ last'.outcome = "rejected"
                        /\ session' = session ]_vars

C17_Witness ==
    /\ last.op = "login" /\ last.outcome = "rejected" /\ last.info = Deactivated
    /\ session = None
    /\ \E k \in DOMAIN users : users[k].username = last.file /\ ~users[k].is_active

(* C18: a failed login answers an existing username with a wrong password,   *)
(* whatever the account's active flag, exactly as it answers the same form    *)
(* when no account has that username: same outcome, same message, no account  *)
(* logged in.                                                                 *)
WithoutUsername(us, username) == SelectSeq(us, LAMBDA a : a.username # username)

C18_NoEnumeration ==
    \A form \in LoginForms : \A k \in DOMAIN users :
        (users[k].username = Strip(form.username) /\ ~check_password(users[k], form.password)) =>
            /\ LoginResult(users, form) = LoginResult(WithoutUsername(users, users[k].username), form)
            /\ LoginResult(users, form).user = 0

C18_Witness ==
    /\ last.op = "login" /\ last.outcome = "rejected" /\ last.info = Incorrect
    /\ \E k \in DOMAIN users : users[k].username = last.file /\ ~users[k].is_active
    /\ UserByUsername(WithoutUsername(users, last.file), last.file) = 0

(* C19: after any sequence of registrations, create_admin runs and           *)
(* init_database runs, no two accounts share a username and no two accounts   *)
(* share an e-mail address, e-mails compared ignoring letter case.            *)
C19_UniqueAccounts ==
    \A j \in DOMAIN users : \A k \in DOMAIN users :
        j # k => /\ users[j].username # users[k].username
                 /\ Lower(users[j].email) # Lower(users[k].email)

(* C20: batch_assign_files(count) of an evaluator with 1 <= count <= 10      *)
(* gives the caller exactly min(count, number of unowned cases waiting for    *)
(* evaluation) cases, all of them unowned and waiting, none of them newer     *)
(* than an unowned waiting case it leaves; it changes their owner and nothing *)
(* else, and changes no other case.  With count below 1 or above 10 it        *)
(* assigns nothing.                                                           *)
Assigned == {k \in DOMAIN files : files'[k] # files[k]}

Waiting == {k \in DOMAIN files : files[k].status = Pending /\ files[k].user_id = None}

C20_BatchAssign ==
    [][ last'.op = "batch_assign_files" =>
          /\ DOMAIN files' = DOMAIN files
          /\ \A u \in DOMAIN users, count \in BatchSizes :
                BatchAssignFiles(u, count) =>
                   IF ~evaluator_required(u) \/ count < 1 \/ count > 10
                   THEN files' = files
                   ELSE /\ Cardinality(Assigned) =
                              (IF count <= Cardinality(Waiting) THEN count ELSE Cardinality(Waiting))
                        /\ Assigned \subseteq Waiting
                        /\ \A k \in Assigned : files'[k] = [files[k] EXCEPT !.user_id = Some(u)]
                        /\ \A k \in Assigned : \A j \in Waiting \ Assigned : k < j ]_vars

(* of two cases imported together, both unowned and waiting, a batch of one  *)
(* took one: the older one                                                    *)
C20_Witness ==
    /\ last.op = "batch_assign_files" /\ last.outcome = "ok" /\ last.info = 1
    /\ \E k \in DOMAIN files : \E j \in DOMAIN files :
          /\ k < j
          /\ files[k].exporter = Lot /\ files[j].exporter = Lot
          /\ files[k].status = Pending /\ files[k].user_id # None
          /\ files[j].status = Pending /\ files[j].user_id = None

(* C21: when a run of check_and_send_recalls has finished, every case whose  *)
(* recall date is today or earlier and whose status is not Finalized, a case  *)
(* without owner included, has a recall notification created today for its    *)
(* owner and one for every admin.                                             *)
RecallNotified(k, user_id) ==
    \E i \in 1..Len(notifications) :
        /\ notifications[i].file_id = Some(k)
        /\ notifications[i].notification_type = "recall"
        /\ notifications[i].user_id = user_id
        /\ notifications[i].created_at = today

C21_RecallsDelivered ==
    (last.op \in {"check_and_send_recalls", "trigger_recalls"} /\ last.outcome = "ok") =>
        \A k \in FilesToRecall :
            /\ files[k].user_id # None => RecallNotified(k, files[k].user_id)
            /\ \A a \in UsersWithRole(Admin) : RecallNotified(k, Some(a))

(* C22: in one run of check_and_send_recalls a failure while processing one  *)
(* case (a case with no owner, a failing commit) is confined to that case:    *)
(* the notifications committed before stay, and every other case to recall,   *)
(* later ones included, is processed and has its recall notifications of the  *)
(* day when the run ends.                                                      *)
C22_FailureConfined ==
    [][ last'.op = "check_and_send_recalls" =>
          /\ Len(notifications') >= Len(notifications)
          /\ SubSeq(notifications', 1, Len(notifications)) = notifications
          /\ \A k \in FilesToRecall :
                (files[k].user_id # None /\ k \notin last'.info) =>
                    RecallSentToday(notifications', k) ]_vars

(* C23: in upload_excel each data row is handled on its own: a rejected row  *)
(* (case number that exists, receipt date unparseable or missing, route B     *)
(* without SOR, route C without SOL) adds one error and creates no case,      *)
(* every other row with a case number is created as an unowned case waiting   *)
(* for evaluation, and the success count reported is the number of cases the  *)
(* upload added.                                                               *)
RowSkipped(row) == UploadRowFile(row).file_number \in {<<>>, <<"N", "o", "n", "e">>}

RowRejected(numbers, row) ==
    LET f == UploadRowFile(row)
    IN  \/ f.file_number \in numbers
        \/ f.receipt_date = None
        \/ f.route = RouteB /\ ~Truthy(f.sor_number)
        \/ f.route = RouteC /\ ~Truthy(f.sol_number)

(* the rows of the sheet, up to row i, that are neither skipped nor rejected *)
RECURSIVE RowsCreated(_, _, _)
RowsCreated(numbers, rows, i) ==
    IF i = 0 THEN {}
    ELSE LET before == RowsCreated(numbers, rows, i - 1)
             taken == numbers \cup {UploadRowFile(rows[j]).file_number : j \in before}
         IN  IF RowSkipped(rows[i]) \/ RowRejected(taken, rows[i]) THEN before
             ELSE before \cup {i}

C23_RowsIndependent ==
    [][ last'.op = "upload_excel" /\ last'.outcome \notin {"forbidden", "invalid"} =>
          \A u \in DOMAIN users, sheet \in Sheets :
             UploadExcel(u, sheet) =>
                LET rows == sheet.rows
                    created == RowsCreated({files[k].file_number : k \in DOMAIN files},
                                           rows, Len(rows))
                    rejected == {i \in 1..Len(rows) : ~RowSkipped(rows[i]) /\ i \notin created}
                    added == DOMAIN files' \ DOMAIN files
                IN  /\ \A k \in DOMAIN files : k \in DOMAIN files' /\ files'[k] = files[k]
                    /\ Cardinality(added) = Cardinality(created)
                    /\ \A i \in created : \E k \in added :
                          /\ files'[k].file_number = UploadRowFile(rows[i]).file_number
                          /\ files'[k].status = Pending
                          /\ files'[k].user_id = None
                    /\ last'.outcome = "ok" =>
                          /\ last'.info.success_count = Cardinality(added)
                          /\ last'.info.error_count = Cardinality(rejected) ]_vars

(* C24: export_files_to_csv on a list of n cases returns the header row      *)
(* followed by exactly n data rows of 17 columns, in the order of the list    *)
(* (the header alone for n = 0); when a case of the list has no owner it      *)
(* raises instead, so that the admin's case export fails as long as the       *)
(* store holds an unowned case.                                                *)
ExportLists ==
    {<<>>} \cup { <<k>> : k \in DOMAIN files }
           \cup { <<j, k>> : j \in DOMAIN files, k \in DOMAIN files }

ExportColumns == 17

C24_ExportRows ==
    /\ \A list \in ExportLists :
          LET csv_data == export_files_to_csv(files, users, cocs, list)
          IN  IF \E i \in 1..Len(list) : files[list[i]].user_id = None
              THEN csv_data.raised
              ELSE /\ ~csv_data.raised
                   /\ Len(csv_data.rows) = Len(list) + 1
                   /\ csv_data.rows[1] = ExportHeader
                   /\ \A i \in 1..(Len(list) + 1) : Len(csv_data.rows[i]) = ExportColumns
                   /\ \A i \in 1..Len(list) :
                         /\ csv_data.rows[i + 1][1] = files[list[i]].file_number
                         /\ csv_data.rows[i + 1][11] = users[files[list[i]].user_id[1]].username
    /\ (last.op = "export_files" /\ last.outcome # "forbidden") =>
          (last.outcome = "error" <=> \E k \in DOMAIN files : files[k].user_id = None)

C24_Witness ==
    /\ last.op = "export_files" /\ last.outcome = "error"
    /\ \E j \in DOMAIN files : \E k \in DOMAIN files :
          files[j].user_id = None /\ files[k].user_id # None /\ HasCoc(cocs, k)

(* C25: toggle_user_status, toggle_user_role and set_user_role called by an  *)
(* admin on their own account are refused and leave that account's active     *)
(* flag and role unchanged; called on another account they change only that   *)
(* account, and only the field they are about.                                 *)
UserOps == {"toggle_user_status", "toggle_user_role", "set_user_role"}

C25_SelfChangeBlocked ==
    [][ last'.op \in UserOps =>
          /\ DOMAIN users' = DOMAIN users
          /\ \A k \in DOMAIN users : k # last'.file => users'[k] = users[k]
          /\ LET before == users[last'.file]
                 after == users'[last'.file]
             IN  /\ last'.op = "toggle_user_status" => after = [before EXCEPT !.is_active = after.is_active]
                 /\ last'.op # "toggle_user_status" => after = [before EXCEPT !.role = after.role]
          /\ \A u \in DOMAIN users :
                (/\ u = last'.file /\ admin_required(u)
                 /\ \/ ToggleUserStatus(u, u) \/ ToggleUserRole(u, u)
                    \/ \E role \in RoleInputs : SetUserRole(u, u, role))
                => /\ last'.outcome = "rejected"
                   /\ users' = users ]_vars

C25_Witness ==
    /\ last.op \in UserOps /\ last.outcome = "rejected" /\ last.info = "self"
    /\ users[last.file].role = Admin
    /\ \E k \in DOMAIN users : k # last.file /\ users[k].role = Admin /\ ~users[k].is_active

(* C26: a case created by import and handled by the role-specific actions    *)
(* only reaches self-assignment: once upload_excel, batch_assign_files,       *)
(* evaluate_file with soumis and process_invoice have run on it, the case is  *)
(* payed and unowned, so that self_assign_file succeeds on it.                *)
C26_InvoicedImportUnowned ==
    \A k \in DOMAIN files :
        (/\ files[k].evaluation_reason = Some(Soumis)
         /\ files[k].invoiced_at # None)
        => /\ files[k].status = Payed
           /\ files[k].user_id = None
           /\ SelfAssignable(files[k])

(* C27: once start_evaluation has moved a case to `en cours d'évaluation`,   *)
(* evaluate_file rejects the case for every caller and changes nothing, and   *)
(* as long as the case exists its status changes only through edit_file or    *)
(* set_completion.                                                             *)
C27_StartedIsStuck ==
    [][ \A k \in DOMAIN files :
           files[k].status = UnderEvaluation =>
              /\ (last'.op = "evaluate_file" /\ last'.file = k) =>
                    /\ last'.outcome \in {"forbidden", "rejected"}
                    /\ UNCHANGED <<files, history, notifications>>
              /\ (k \in DOMAIN files' /\ files'[k].status # UnderEvaluation) =>
                    last'.op \in {"edit_file", "set_completion"} ]_vars

C27_Witness ==
    /\ last.op = "evaluate_file" /\ last.outcome = "rejected" /\ last.info = "status"
    /\ files[last.file].status = UnderEvaluation
    /\ files[last.file].user_id # None
    /\ evaluator_required(files[last.file].user_id[1])
    /\ \E i \in 1..Len(history) :
          history[i].file_id = last.file /\ history[i].new_status = UnderEvaluation

(* C28: every status change made by start_evaluation, evaluate_file,         *)
(* edit_file, set_completion and self_assign_file appends exactly one         *)
(* status-history entry for the case, with the status before as old_status,    *)
(* the status after as new_status and the caller as actor; an edit_file that   *)
(* keeps the status appends none; and no operation other than the deletion of  *)
(* a case modifies or removes an entry.                                        *)
HistoryOps ==
    {"start_evaluation", "evaluate_file", "edit_file", "set_completion", "self_assign_file"}

StatusChanged == {k \in DOMAIN files \cap DOMAIN files' : files'[k].status # files[k].status}

(* the handler step just taken is one of caller u *)
StepOf(u) ==
    LET id == last'.file
    IN  \/ StartEvaluation(u, id)
        \/ SelfAssignFile(u, id)
        \/ \E d \in {Blank, Described} : SetCompletion(u, id, d)
        \/ \E form \in EvaluationForms : EvaluateFile(u, id, form)
        \/ \E form \in EditStatusForms : EditFile(u, id, form)

C28_HistoryPerChange ==
    [][ IF last'.op \in {"delete_file", "admin_delete_file"}
        THEN history' = SelectSeq(history, LAMBDA h : h.file_id \in DOMAIN files')
        ELSE /\ Len(history') >= Len(history)
             /\ SubSeq(history', 1, Len(history)) = history
             /\ (last'.op \in HistoryOps /\ StatusChanged # {}) =>
                   /\ StatusChanged = {last'.file}
                   /\ Len(history') = Len(history) + 1
                   /\ LET h == history'[Len(history')]
                          k == last'.file
                      IN  /\ h.file_id = k
                          /\ h.old_status = Some(files[k].status)
                          /\ h.new_status = files'[k].status
                          /\ \A u \in DOMAIN users : StepOf(u) => h.changed_by = Some(u)
             /\ (last'.op = "edit_file" /\ StatusChanged = {}) => history' = history ]_vars

C28_Witness ==
    /\ last.op = "edit_file" /\ last.outcome = "ok"
    /\ Len(history) = 2
    /\ history[1].file_id = last.file /\ history[1].new_status = UnderEvaluation
    /\ history[2].file_id = last.file /\ history[2].old_status = Some(UnderEvaluation)
    /\ history[2].new_status = files[last.file].status
    /\ history[2].changed_by # history[1].changed_by

(* C29: in evaluate_file, self_assign_file and edit_file the status change   *)
(* and its status-history entry (and, for evaluate_file, the notifications    *)
(* to the invoicing users) are committed together: also when the second       *)
(* write fails, no request leaves the new status without the matching entry.  *)
C29_CommittedTogether ==
    [][ last'.op \in {"evaluate_file", "self_assign_file", "edit_file"} =>
          \A k \in StatusChanged :
             /\ \E i \in (Len(history) + 1)..Len(history') :
                   /\ history'[i].file_id = k
                   /\ history'[i].old_status = Some(files[k].status)
                   /\ history'[i].new_status = files'[k].status
             /\ (last'.op = "evaluate_file" /\ files'[k].status = ReadyToInvoice) =>
                   \A v \in UsersWithRole(Invoicing) :
                      \E i \in (Len(notifications) + 1)..Len(notifications') :
                         /\ notifications'[i].user_id = Some(v)
                         /\ notifications'[i].file_id = Some(k) ]_vars


(* C30: when process_invoice ends in its error branch, the case's status,   *)
(* MAR number, ProForma number, invoiced_at and invoiced_by are as they     *)
(* were before the request, for every `ready to invoice` case, one without  *)
(* an owner included.                                                       *)
C30_ErrorLeavesCaseAsBefore ==
    [][ (last'.op = "process_invoice" /\ last'.outcome = "error") =>
           \A u \in Callers, id \in DOMAIN files, form \in InvoiceForms :
              ProcessInvoice(u, id, form) =>
                 /\ files'[id].status = files[id].status
                 /\ files'[id].mar_number = files[id].mar_number
                 /\ files'[id].proforma_number = files[id].proforma_number
                 /\ files'[id].invoiced_at = files[id].invoiced_at
                 /\ files'[id].invoiced_by = files[id].invoiced_by ]_vars


(* two recall notifications of one case for one recipient, created the same day *)
RecalledTwice(ns) ==
    \E i, j \in 1..Len(ns) :
        /\ i < j
        /\ ns[i].notification_type = "recall" /\ ns[j].notification_type = "recall"
        /\ ns[i].file_id = ns[j].file_id
        /\ ns[i].user_id = ns[j].user_id
        /\ ns[i].created_at = ns[j].created_at

(* C31: two runs of check_and_send_recalls that overlap can both pass the    *)
(* same-day check of a case before either commits, so that two same-day       *)
(* recall notifications for one case and one recipient exist; runs that        *)
(* execute one after the other never reach such a state.  This is the second   *)
(* half: when no run is in progress between start and end of another, no case  *)
(* has two same-day recall notifications for one recipient.                    *)
C31_SequentialRunsNoDuplicate ==
    [][ (inflight = <<>> /\ inflight' = <<>>) =>
           (~RecalledTwice(notifications) => ~RecalledTwice(notifications')) ]_vars

(* the first half: on a UTC server two overlapping runs have left two         *)
(* same-day recall notifications of one case for its owner, who is no admin    *)
C31_RaceReached ==
    /\ tzSign = 0
    /\ last.op = "recall_run" /\ last.outcome = "committed"
    /\ \E i, j \in 1..Len(notifications) :
          /\ i < j
          /\ notifications[i] = notifications[j]
          /\ notifications[i].notification_type = "recall"
          /\ notifications[i].user_id[1] \notin UsersWithRole(Admin)


(* the history entries of case k for a self-assignment *)
SelfAssignEntries(h, k) ==
    {i \in 1..Len(h) : /\ h[i].file_id = k
                       /\ h[i].old_status = Some(Payed)
                       /\ h[i].new_status = InProcessing}

(* C32: when the requests of two users to take the same unowned case          *)
(* interleave (two self_assign_file on a `payed` case, two batch_assign_files  *)
(* on a pending case), at most one takes effect: a request writes the owner    *)
(* only of a case that has none, and a case has at most one history entry      *)
(* from `payed` to `en cours de traitement`.                                   *)
C32_OneClaimTakesEffect ==
    [][ last'.op \in {"self_assign_file", "batch_assign_files"} =>
          /\ \A k \in DOMAIN files :
                files'[k].user_id # files[k].user_id => files[k].user_id = None
          /\ \A k \in DOMAIN files : Cardinality(SelfAssignEntries(history', k)) <= 1 ]_vars


(* the text validate_route receives for a SOR or SOL value of an imported row *)
NumberText(v) == IF v = None THEN <<>> ELSE v[1]

(* C33: upload_excel accepts a row's route, SOR and SOL exactly when          *)
(* Validator.validate_route accepts them: a row whose upper-cased route is    *)
(* not A, B or C is rejected, as is a route B row without SOR and a route C   *)
(* row without SOL, and every row validate_route accepts is accepted.         *)
C33_ImportRoutesAsValidator ==
    [][ (last'.op = "upload_excel" /\ last'.outcome = "ok") =>
          \A u \in DOMAIN users, sheet \in RouteSheets :
             LET f == UploadRowFile(sheet.rows[1])
             IN  (UploadExcel(u, sheet) /\ ~FileNumberExists(files, f.file_number)) =>
                    ((last'.info.success_count = 1)
                       <=> validate_route(f.route, NumberText(f.sor_number),
                                          NumberText(f.sol_number))) ]_vars


(* the stays of the cases in a stage: the transitions out of it that have an  *)
(* entry into it, of the same case, before them                                *)
Stays(h, stage) == {i \in TransitionsFrom(h, stage) : EntryBeforeExit(h, i, stage) # 0}

RECURSIVE StayTime(_, _, _)
StayTime(h, stage, is) ==
    IF is = {} THEN 0
    ELSE LET i == CHOOSE m \in is : TRUE
         IN  (h[i].changed_at - h[EntryBeforeExit(h, i, stage)].changed_at)
             + StayTime(h, stage, is \ {i})

(* C34: get_average_time_by_stage measures, for every transition out of a     *)
(* stage, the time since the same case's most recent entry into that stage    *)
(* at or before the exit: every stay is counted with its own duration, two     *)
(* stays of one case in the same stage included, and a stage with no           *)
(* transition out of it yields None.                                           *)
C34_StageTimes ==
    (last.op = "temporal" /\ last.outcome = "ok") =>
        \A stage \in stages :
            last.info[stage] =
                IF Stays(history, stage) = {} THEN None
                ELSE Some(RoundTenths(StayTime(history, stage, Stays(history, stage)),
                                      Cardinality(Stays(history, stage))))


(* C35: after any sequence of save_file and delete_file calls, calls that     *)
(* fail part-way included, a stored upload file exists exactly when its        *)
(* metadata record exists: a failed save leaves neither and a failed delete    *)
(* leaves both.                                                                *)
C35_FileIffRecord ==
    disk = {attachments[i].file_path : i \in 1..Len(attachments)}


(* the handlers that never write the owner *)
OwnerKeepingOps ==
    {"edit_file", "evaluate_file", "process_invoice", "set_completion", "start_evaluation"}

EntriesOf(h, k) == SelectSeq(h, LAMBDA e : e.file_id = k)

(* C37: for every case that has a status-history entry the entries form a     *)
(* chain: the old_status of each entry is the new_status of the entry before   *)
(* it, and the new_status of the most recent entry is the current status of    *)
(* the case, after any sequence of evaluation, invoicing, edit, set-completion *)
(* and self-assign operations.                                                 *)
C37_HistoryIsChain ==
    \A k \in DOMAIN files :
        LET entries == EntriesOf(history, k)
        IN  entries # <<>> =>
               /\ \A i \in 2..Len(entries) :
                      entries[i].old_status = Some(entries[i - 1].new_status)
               /\ entries[Len(entries)].new_status = files[k].status

(* C38 as stated: in every state a case that has a CoC record is Finalized *)
C38_CocImpliesFinalized ==
    \A i \in 1..Len(cocs) :
        cocs[i].file_id \in DOMAIN files => files[cocs[i].file_id].status = Finalized

(* C38 amended: a case that carries a CoC record and is Finalized leaves      *)
(* Finalized only by edit_file or set_completion on that case, and keeps its  *)
(* CoC record; start_evaluation, evaluate_file, process_invoice,              *)
(* batch_assign_files, self_assign_file, add_coc and new_file leave it        *)
(* Finalized.                                                                  *)
C38_CocLeavesFinalizedByEditOnly ==
    [][\A k \in DOMAIN files :
          (/\ HasCoc(cocs, k)
           /\ files[k].status = Finalized
           /\ k \in DOMAIN files'
           /\ files'[k].status # Finalized)
          => /\ last'.op \in {"edit_file", "set_completion"}
             /\ last'.outcome = "ok"
             /\ last'.file = k
             /\ HasCoc(cocs', k)]_vars

(* a case that carries a CoC record has been refused by process_invoice and   *)
(* is still Finalized                                                          *)
C38_Witness ==
    /\ last.op = "process_invoice" /\ last.outcome = "rejected"
    /\ last.file \in DOMAIN files
    /\ HasCoc(cocs, last.file)
    /\ files[last.file].status = Finalized

(* C39: in every state reached by toggle_user_status, toggle_user_role and    *)
(* set_user_role requests of admins, however their steps interleave, at least *)
(* one account is active and has role admin.                                   *)
C39_ActiveAdminRemains ==
    \E k \in DOMAIN users : users[k].role = Admin /\ users[k].is_active

====
